---- MODULE Spec2Model ----
(***************************************************************************)
(* Permission / role authorization core of the starter templates:          *)
(* the permission matcher, the route matcher, the permission resolver and  *)
(* the withAuth gate that composes them.                                   *)
(*                                                                         *)
(* Encoding of the TypeScript values:                                      *)
(*   - a permission string "a:b:c" is the sequence of its ':'-separated    *)
(*     segments <<"a","b","c">> (what split(':') returns); the bare "*"    *)
(*     is <<"*">>;                                                         *)
(*   - a path or path pattern is the sequence of its atoms: "/" , "?",     *)
(*     ".", "*", a ":name" placeholder, or a run of other characters;      *)
(*   - an array is a sequence;                                             *)
(*   - null is NULL, undefined is UNDEF; an optional Date is the empty set *)
(*     (null) or a singleton {t}.                                          *)
(***************************************************************************)
EXTENDS Integers, Sequences, FiniteSets, TLC

NULL == "null"
UNDEF == "undefined"

\* An optional value: None is null / undefined / absent, Some(x) is x.
None == <<>>
Some(x) == <<x>>

\* Largest value of the wall clock read by `new Date()`.
MaxTime == 3

Range(s) == {s[i] : i \in 1..Len(s)}

\* Dedupe that keeps every occurrence.
KeepAll(s) == s

\* [...new Set(arr)]: the first occurrence of each element, in order.
RECURSIVE Dedupe(_)
Dedupe(s) ==
  IF s = <<>> THEN <<>>
  ELSE LET front == Dedupe(SubSeq(s, 1, Len(s) - 1))
           last == s[Len(s)]
       IN IF last \in Range(front) THEN front ELSE Append(front, last)

\* arr.push(...items) over a sequence of arrays.
RECURSIVE Flatten(_)
Flatten(ss) ==
  IF ss = <<>> THEN <<>> ELSE Head(ss) \o Flatten(Tail(ss))

\* The elements of s that satisfy Test, in order (Array.prototype.filter).
RECURSIVE SelectSeqBy(_, _)
SelectSeqBy(s, keep) ==
  IF s = <<>> THEN <<>>
  ELSE IF Head(s) \in keep THEN <<Head(s)>> \o SelectSeqBy(Tail(s), keep)
       ELSE SelectSeqBy(Tail(s), keep)

(***************************************************************************)
(* Permission matcher (lib/permissions/matcher.ts)                         *)
(***************************************************************************)

Star == <<"*">>

\* matchesPermission with a '*' segment of either string acting as wildcard.
matchesPermissionEitherSide(held, required) ==
  IF held = required THEN TRUE
  ELSE IF held = Star THEN TRUE
  ELSE IF Len(held) # Len(required) THEN FALSE
  ELSE \A i \in 1..Len(held) :
         held[i] = "*" \/ required[i] = "*" \/ held[i] = required[i]

matchesPermission(held, required) ==
  IF held = required THEN TRUE
  ELSE IF held = Star THEN TRUE
  ELSE IF Len(held) # Len(required) THEN FALSE
  ELSE \A i \in 1..Len(held) : held[i] = "*" \/ held[i] = required[i]

\* The userKeys / userRoles argument may be null at run time: it is None for
\* null and Some(array) for an array.  Length is `arr?.length`, 0 when absent.
Length(arr) == IF arr = None THEN 0 ELSE Len(arr[1])

hasPermission(userKeys, required) ==
  IF Length(userKeys) = 0 THEN FALSE
  ELSE \E i \in 1..Len(userKeys[1]) : matchesPermission(userKeys[1][i], required)

hasAnyPermission(userKeys, required) ==
  IF Len(required) = 0 THEN FALSE
  ELSE \E i \in 1..Len(required) : hasPermission(userKeys, required[i])

\* hasAllPermissions with some() in place of every().
hasAllPermissionsSome(userKeys, required) ==
  IF Len(required) = 0 THEN FALSE
  ELSE \E i \in 1..Len(required) : hasPermission(userKeys, required[i])

\* hasAllPermissions without the guard on an empty list.
hasAllPermissionsVacuous(userKeys, required) ==
  \A i \in 1..Len(required) : hasPermission(userKeys, required[i])

hasAllPermissions(userKeys, required) ==
  IF Len(required) = 0 THEN FALSE
  ELSE \A i \in 1..Len(required) : hasPermission(userKeys, required[i])

\* A PermissionRequirement is [kind, keys]: kind "public" (null),
\* "authenticated", "single" (keys = <<key>>), "any" or "all".
\* A RoleRequirement has the kinds "single", "any" and "all".
Public == [kind |-> "public", keys |-> <<>>]
Authenticated == [kind |-> "authenticated", keys |-> <<>>]
Single(key) == [kind |-> "single", keys |-> <<key>>]
AnyOf(keys) == [kind |-> "any", keys |-> keys]
AllOf(keys) == [kind |-> "all", keys |-> keys]

\* satisfiesRequirement with the guard on userKeys ahead of 'authenticated'.
satisfiesRequirementKeysFirst(userKeys, requirement) ==
  IF requirement.kind = "public" THEN TRUE
  ELSE IF Length(userKeys) = 0 THEN FALSE
  ELSE IF requirement.kind = "authenticated" THEN userKeys # None
  ELSE IF requirement.kind = "single"
         THEN hasPermission(userKeys, requirement.keys[1])
  ELSE IF requirement.kind = "any"
         THEN hasAnyPermission(userKeys, requirement.keys)
  ELSE IF requirement.kind = "all"
         THEN hasAllPermissions(userKeys, requirement.keys)
  ELSE FALSE

satisfiesRequirement(userKeys, requirement) ==
  IF requirement.kind = "public" THEN TRUE
  ELSE IF requirement.kind = "authenticated" THEN userKeys # None
  ELSE IF Length(userKeys) = 0 THEN FALSE
  ELSE IF requirement.kind = "single"
         THEN hasPermission(userKeys, requirement.keys[1])
  ELSE IF requirement.kind = "any"
         THEN hasAnyPermission(userKeys, requirement.keys)
  ELSE IF requirement.kind = "all"
         THEN hasAllPermissions(userKeys, requirement.keys)
  ELSE FALSE

\* hasRole with a held role named '*' matching every role.
hasRoleWildcard(userRoles, required) ==
  IF Length(userRoles) = 0 THEN FALSE
  ELSE \E i \in 1..Len(userRoles[1]) :
         userRoles[1][i] = "*" \/ userRoles[1][i] = required

\* userRoles.includes(required)
hasRole(userRoles, required) ==
  IF Length(userRoles) = 0 THEN FALSE
  ELSE \E i \in 1..Len(userRoles[1]) : userRoles[1][i] = required

hasAnyRole(userRoles, required) ==
  IF Len(required) = 0 THEN FALSE
  ELSE \E i \in 1..Len(required) : hasRole(userRoles, required[i])

hasAllRoles(userRoles, required) ==
  IF Len(required) = 0 THEN FALSE
  ELSE \A i \in 1..Len(required) : hasRole(userRoles, required[i])

satisfiesRoleRequirement(userRoles, requirement) ==
  IF Length(userRoles) = 0 THEN FALSE
  ELSE IF requirement.kind = "single"
         THEN hasRole(userRoles, requirement.keys[1])
  ELSE IF requirement.kind = "any" THEN hasAnyRole(userRoles, requirement.keys)
  ELSE IF requirement.kind = "all" THEN hasAllRoles(userRoles, requirement.keys)
  ELSE FALSE

(***************************************************************************)
(* Route matcher (lib/permissions/route-matcher.ts)                        *)
(***************************************************************************)

\* Atoms that the pattern language reads as a ":name" placeholder.
ParamAtoms == {":id", ":roleId"}

\* The compiled regular expression, one item per pattern atom: a literal
\* (every atom the escaping step leaves or makes literal), "[^/]+" for a
\* ":name" placeholder, ".*" for a "*".
patternToRegex(pattern) ==
  [i \in 1..Len(pattern) |->
     IF pattern[i] \in ParamAtoms THEN [t |-> "seg", a |-> ""]
     ELSE IF pattern[i] = "*" THEN [t |-> "any", a |-> ""]
     ELSE [t |-> "lit", a |-> pattern[i]]]

\* RegExp.prototype.test for ^re$ : items i.. of re match atoms j.. of p.
RECURSIVE RegexMatchFrom(_, _, _, _)
RegexMatchFrom(re, i, p, j) ==
  IF i > Len(re) THEN j > Len(p)
  ELSE IF re[i].t = "lit"
         THEN j <= Len(p) /\ p[j] = re[i].a /\ RegexMatchFrom(re, i + 1, p, j + 1)
  ELSE IF re[i].t = "seg"
         THEN \E k \in (j + 1)..(Len(p) + 1) :
                /\ \A m \in j..(k - 1) : p[m] # "/"
                /\ RegexMatchFrom(re, i + 1, p, k)
  ELSE \E k \in j..(Len(p) + 1) : RegexMatchFrom(re, i + 1, p, k)

\* RegexTest without the end anchor: some prefix of p matches.
RegexTestPrefix(re, p) ==
  \E k \in 0..Len(p) : RegexMatchFrom(re, 1, SubSeq(p, 1, k), 1)

RegexTest(re, p) == RegexMatchFrom(re, 1, p, 1)

\* StripQuery that leaves the query string in place.
KeepQuery(path) == path

\* path.split('?')[0]: the atoms before the first "?".
RECURSIVE StripQuery(_)
StripQuery(path) ==
  IF path = <<>> \/ Head(path) = "?" THEN <<>>
  ELSE <<Head(path)>> \o StripQuery(Tail(path))

\* String.prototype.toUpperCase on the method names that occur.
ToUpperCase(m) ==
  CASE m = "get" -> "GET"
    [] m = "post" -> "POST"
    [] m = "delete" -> "DELETE"
    [] OTHER -> m

pathMatchesPattern(pattern, path) ==
  RegexTest(patternToRegex(pattern), StripQuery(path))

\* FindFrom without the method check: the first entry whose path matches.
RECURSIVE FindFromAnyMethod(_, _, _, _)
FindFromAnyMethod(registry, i, normalizedMethod, normalizedPath) ==
  IF i > Len(registry) THEN 0
  ELSE IF RegexTest(patternToRegex(registry[i].path), normalizedPath)
         THEN i
  ELSE FindFromAnyMethod(registry, i + 1, normalizedMethod, normalizedPath)

\* The index of the first matching entry of the registry, 0 for null.
RECURSIVE FindFrom(_, _, _, _)
FindFrom(registry, i, normalizedMethod, normalizedPath) ==
  IF i > Len(registry) THEN 0
  ELSE IF registry[i].method # "*"
          /\ ToUpperCase(registry[i].method) # normalizedMethod
         THEN FindFrom(registry, i + 1, normalizedMethod, normalizedPath)
  ELSE IF RegexTest(patternToRegex(registry[i].path), normalizedPath)
         THEN i
  ELSE FindFrom(registry, i + 1, normalizedMethod, normalizedPath)

findRoutePermission(registry, method, path) ==
  FindFrom(registry, 1, ToUpperCase(method), StripQuery(path))

(***************************************************************************)
(* The shipped registry (config/route-permissions.ts)                      *)
(***************************************************************************)

UsersReadAll == <<"users", "read", "all">>
UsersManageAll == <<"users", "manage", "all">>
AdminAccessAll == <<"admin", "access", "all">>
SystemAdminAll == <<"system", "admin", "all">>
ProjectsDeleteAll == <<"projects", "delete", "all">>

Route(m, p, perm) == [method |-> m, path |-> p, permission |-> perm]

ROUTE_PERMISSIONS == <<
  Route("POST", <<"/", "api", "/", "auth", "/", "register">>, Public),
  Route("POST", <<"/", "api", "/", "auth", "/", "login">>, Public),
  Route("POST", <<"/", "api", "/", "auth", "/", "forgot-password">>, Public),
  Route("GET", <<"/", "api", "/", "health">>, Public),
  Route("GET", <<"/", "api", "/", "auth", "/", "me">>, Authenticated),
  Route("POST", <<"/", "api", "/", "auth", "/", "logout">>, Authenticated),
  Route("GET", <<"/", "api", "/", "auth", "/", "permissions">>, Authenticated),
  Route("GET", <<"/", "api", "/", "roles">>, Single(UsersReadAll)),
  Route("POST", <<"/", "api", "/", "roles">>, Single(UsersManageAll)),
  Route("GET", <<"/", "api", "/", "roles", "/", ":id">>, Single(UsersReadAll)),
  Route("PUT", <<"/", "api", "/", "roles", "/", ":id">>, Single(UsersManageAll)),
  Route("DELETE", <<"/", "api", "/", "roles", "/", ":id">>, Single(UsersManageAll)),
  Route("GET", <<"/", "api", "/", "users", "/", ":id", "/", "roles">>,
        Single(UsersReadAll)),
  Route("POST", <<"/", "api", "/", "users", "/", ":id", "/", "roles">>,
        Single(UsersManageAll)),
  Route("DELETE",
        <<"/", "api", "/", "users", "/", ":id", "/", "roles", "/", ":roleId">>,
        Single(UsersManageAll)),
  Route("GET", <<"/", "api", "/", "users">>,
        AnyOf(<<UsersReadAll, AdminAccessAll>>)),
  Route("GET", <<"/", "api", "/", "users", "/", ":id">>,
        AnyOf(<<UsersReadAll, AdminAccessAll>>)),
  Route("PUT", <<"/", "api", "/", "users", "/", ":id">>, Single(UsersManageAll)),
  Route("DELETE", <<"/", "api", "/", "users", "/", ":id">>, Single(UsersManageAll)),
  Route("GET", <<"/", "api", "/", "admin", "/", "dashboard">>,
        Single(AdminAccessAll)),
  Route("DELETE", <<"/", "api", "/", "admin", "/", "purge">>,
        AllOf(<<AdminAccessAll, SystemAdminAll>>)),
  Route("*", <<"/", "api", "/", "admin", "/", "*">>, Single(AdminAccessAll))
>>

(***************************************************************************)
(* The data store: users, roles, user-role assignments, direct grants      *)
(***************************************************************************)

\* The user table (db.user); it does not change.
UserEmail(id) ==
  CASE id = "u1" -> "u1@example.com"
    [] id = "u2" -> "u2@example.com"
    [] OTHER -> NULL

UserIds == {"u1", "u2"}

\* The rows db.role can hold.
RoleRow(id) ==
  CASE id = "r1" -> [name |-> "Admin", permissions |-> <<AdminAccessAll>>,
                     organizationId |-> NULL]
    [] id = "r2" -> [name |-> "OrgManager",
                     permissions |-> <<UsersReadAll, SystemAdminAll>>,
                     organizationId |-> "o1"]

RoleIds == {"r1", "r2"}

\* The rows db.userRole can hold, in the order findMany returns them.
\* expiresAt is {} for null, {t} for a date.
UserRolePool == <<
  [id |-> "a1", userId |-> "u1", roleId |-> "r1", organizationId |-> NULL,
   expiresAt |-> {}],
  [id |-> "a2", userId |-> "u1", roleId |-> "r2", organizationId |-> "o1",
   expiresAt |-> {2}],
  [id |-> "a3", userId |-> "u1", roleId |-> "r2", organizationId |-> NULL,
   expiresAt |-> {}],
  [id |-> "a4", userId |-> "u2", roleId |-> "r1", organizationId |-> "o2",
   expiresAt |-> {1}]
>>

\* The rows db.userPermissionMap can hold.
PermissionMapPool == <<
  [id |-> "g1", userId |-> "u1", permissions |-> <<ProjectsDeleteAll>>,
   organizationId |-> NULL, expiresAt |-> {1}],
  [id |-> "g2", userId |-> "u1", permissions |-> <<SystemAdminAll, AdminAccessAll>>,
   organizationId |-> "o2", expiresAt |-> {}],
  [id |-> "g3", userId |-> "u2", permissions |-> <<UsersReadAll>>,
   organizationId |-> NULL, expiresAt |-> {}]
>>

IdsOf(pool) == {pool[i].id : i \in 1..Len(pool)}

\* A store state: the ids of the rows present in each table.
StoreOf(ur, ro, pm) == [userRoles |-> ur, roles |-> ro, permissionMaps |-> pm]

(***************************************************************************)
(* Permission resolver (lib/permissions/resolver.ts)                       *)
(***************************************************************************)

\* JavaScript truthiness of an organizationId argument.
Truthy(organizationId) == organizationId \notin {UNDEF, NULL, ""}

\* { OR: [{ organizationId: null }, ...(organizationId ? [{ organizationId }] : [])] }
ScopeFilter(rowOrg, organizationId) ==
  \/ rowOrg = NULL
  \/ Truthy(organizationId) /\ rowOrg = organizationId

\* NotExpiredFilter with gte in place of gt.
NotExpiredFilterInclusive(expiresAt, now) ==
  \/ expiresAt = {}
  \/ \E t \in expiresAt : t >= now

\* { OR: [{ expiresAt: null }, { expiresAt: { gt: now } }] }
NotExpiredFilter(expiresAt, now) ==
  \/ expiresAt = {}
  \/ \E t \in expiresAt : t > now

\* db.userRole.findMany({ where ..., include: { role: true } }): the rows
\* with their role (NULL when the role row is gone).
findUserRoles(store, userId, organizationId, now) ==
  LET keep == {r \in Range(UserRolePool) :
                 /\ r.id \in store.userRoles
                 /\ r.userId = userId
                 /\ ScopeFilter(r.organizationId, organizationId)
                 /\ NotExpiredFilter(r.expiresAt, now)}
      rows == SelectSeqBy(UserRolePool, keep)
  IN [i \in 1..Len(rows) |->
        [id |-> rows[i].id,
         role |-> IF rows[i].roleId \in store.roles THEN rows[i].roleId ELSE NULL]]

\* RoleIncluded without the check of the role's own scope.
RoleIncludedAlways(role, organizationId) == TRUE

\* if (role.organizationId === null || role.organizationId === organizationId)
RoleIncluded(role, organizationId) ==
  \/ role.organizationId = NULL
  \/ role.organizationId = organizationId

\* ContributingRows giving up on every row when one role is gone.
ContributingRowsAllOrNothing(userRoles, organizationId) ==
  IF \E ur \in Range(userRoles) : ur.role = NULL THEN <<>>
  ELSE SelectSeqBy(userRoles,
                   {ur \in Range(userRoles) :
                      RoleIncluded(RoleRow(ur.role), organizationId)})

\* The loop over userRoles: the rows that contribute, in order.
ContributingRows(userRoles, organizationId) ==
  SelectSeqBy(userRoles,
              {ur \in Range(userRoles) :
                 /\ ur.role # NULL
                 /\ RoleIncluded(RoleRow(ur.role), organizationId)})

extractRoles(userRoles, organizationId) ==
  LET rows == ContributingRows(userRoles, organizationId)
  IN [i \in 1..Len(rows) |-> RoleRow(rows[i].role).name]

extractRolePermissions(userRoles, organizationId) ==
  LET rows == ContributingRows(userRoles, organizationId)
  IN Flatten([i \in 1..Len(rows) |-> RoleRow(rows[i].role).permissions])

\* db.userPermissionMap.findMany({ where: { userId, OR: [...] } })
findDirectMaps(store, userId, organizationId) ==
  SelectSeqBy(PermissionMapPool,
              {m \in Range(PermissionMapPool) :
                 /\ m.id \in store.permissionMaps
                 /\ m.userId = userId
                 /\ ScopeFilter(m.organizationId, organizationId)})

\* MapExpired with < in place of <=.
MapExpiredStrict(expiresAt, now) ==
  /\ expiresAt # {}
  /\ \E t \in expiresAt : t < now

\* if (map.expiresAt && map.expiresAt <= now) {continue;}
MapExpired(expiresAt, now) ==
  /\ expiresAt # {}
  /\ \E t \in expiresAt : t <= now

extractDirectPermissions(directMaps, now) ==
  LET live == SelectSeqBy(directMaps,
                          {m \in Range(directMaps) : ~MapExpired(m.expiresAt, now)})
  IN Flatten([i \in 1..Len(live) |-> live[i].permissions])

\* The returned ResolvedPermissions.
combineResolved(roles, rolePermissions, directPermissions) ==
  [roles |-> Dedupe(roles),
   permissions |-> Dedupe(rolePermissions \o directPermissions),
   rolePermissions |-> Dedupe(rolePermissions),
   directPermissions |-> Dedupe(directPermissions)]

EmptyResolved == combineResolved(<<>>, <<>>, <<>>)

\* resolveUserPermissions run against one store state at evaluation time now.
resolveUserPermissions(store, userId, organizationId, now) ==
  LET userRoles == findUserRoles(store, userId, organizationId, now)
  IN combineResolved(
       extractRoles(userRoles, organizationId),
       extractRolePermissions(userRoles, organizationId),
       extractDirectPermissions(findDirectMaps(store, userId, organizationId), now))

(***************************************************************************)
(* Session tokens (server/auth/jwt.ts)                                     *)
(***************************************************************************)

\* The tokens signed with the server's secret: their subject ("" when the
\* payload carries none) and expiry time. Every other string fails jwtVerify.
SignedTokens == {"tok_u1", "tok_u2", "tok_u1_short", "tok_gone", "tok_nosub"}

TokenClaims(tok) ==
  CASE tok = "tok_u1" -> [sub |-> "u1", exp |-> {}]
    [] tok = "tok_u2" -> [sub |-> "u2", exp |-> {}]
    [] tok = "tok_u1_short" -> [sub |-> "u1", exp |-> {2}]
    [] tok = "tok_gone" -> [sub |-> "u9", exp |-> {}]
    [] tok = "tok_nosub" -> [sub |-> "", exp |-> {}]

\* jwtVerify throws on a bad signature and once the exp time is reached.
JwtVerifies(token, time) ==
  /\ Len(token) = 1
  /\ token[1] \in SignedTokens
  /\ \A e \in TokenClaims(token[1]).exp : time < e

\* payload.sub of the verified token, NULL when verification fails.
verifySessionToken(token, time) ==
  IF JwtVerifies(token, time) THEN TokenClaims(token[1]).sub ELSE NULL

(***************************************************************************)
(* Authorization gate (server/auth/middleware.ts)                          *)
(***************************************************************************)

VARIABLES
  clock,       \* the wall clock
  userRoleT,   \* ids of the db.userRole rows present
  roleT,       \* ids of the db.role rows present
  permMapT,    \* ids of the db.userPermissionMap rows present
  revoked,     \* ids of the db.userRole rows deleted so far (ids are not reused)
  rq,          \* the request being served by withAuth and its local variables
  call,        \* the last call of a matcher function: name, arguments, result
  seen,        \* resolutions of the store states seen since resolution began
  prior,       \* the last completed resolution, while the store is unchanged
  guard,       \* a mounted RouteGuard: its inputs, its state, its last check
  client,      \* the browser: the cached permission token and usePermissions
  login,       \* an account's lockout columns and the login requests in flight
  limiter,     \* the rate limiter's entry for one key and the calls it allowed
  session      \* the db.session rows and the tokens that were logged out

core == <<clock, userRoleT, roleT, permMapT, revoked, rq>>
outside == <<guard, client, login, limiter, session>>
vars ==
  <<clock, userRoleT, roleT, permMapT, revoked, rq, call, seen, prior, outside>>

\* The store with the removed assignments still in it.
StoreStale == StoreOf(userRoleT \cup revoked, roleT, permMapT)

Store == StoreOf(userRoleT, roleT, permMapT)

\* authHeader.replace(/^Bearer\s+/i, '')
ToLowerCase(w) ==
  CASE w = "Bearer" -> "bearer"
    [] w = "BEARER" -> "bearer"
    [] OTHER -> w

StripBearer(header) ==
  IF Len(header) >= 2 /\ ToLowerCase(header[1]) = "bearer" /\ header[2] = " "
  THEN SubSeq(header, 3, Len(header))
  ELSE header

\* authHeader?.replace(...) ?? request.cookies.get('session')?.value
extractToken(authHeader, sessionCookie) ==
  IF authHeader # None THEN Some(StripBearer(authHeader[1])) ELSE sessionCookie

\* !token
TokenMissing(token) == token = None \/ token[1] = <<>>

\* !payload?.sub
SubMissing(sub) == sub \in {NULL, ""}

\* db.user.findUnique({ where: { id } }): the user's id, NULL when not found.
findUser(id) == IF id \in UserIds THEN id ELSE NULL

\* header ?? query ?? cookie ?? undefined
organizationContext(orgHeader, orgQuery, orgCookie) ==
  IF orgHeader # NULL THEN orgHeader
  ELSE IF orgQuery # NULL THEN orgQuery
  ELSE IF orgCookie # NULL THEN orgCookie
  ELSE UNDEF

Response(status, error, required, yourRoles) ==
  [status |-> status, error |-> error, required |-> required,
   yourRoles |-> yourRoles]

NotRegisteredResponse ==
  Response(404, "Route not registered in permission registry", None, <<>>)
AuthenticationRequiredResponse == Response(401, "Authentication required", None, <<>>)
InvalidTokenResponse == Response(401, "Invalid or expired token", None, <<>>)
UserNotFoundResponse == Response(401, "User not found", None, <<>>)
ForbiddenResponse(required, yourRoles) ==
  Response(403, "Forbidden", Some(required), yourRoles)

AuthContext(userId, organizationId, roles, permissions) ==
  [userId |-> userId, email |-> UserEmail(userId),
   organizationId |-> organizationId, roles |-> roles,
   permissions |-> permissions]

\* No request in flight.
IdleRequest ==
  [pc |-> "idle",
   request |-> [method |-> "", pathname |-> <<>>, authorization |-> None,
                sessionCookie |-> None, orgHeader |-> NULL, orgQuery |-> NULL,
                orgCookie |-> NULL],
   entry |-> 0, token |-> None, sub |-> NULL, user |-> NULL,
   organizationId |-> UNDEF, resolverCalled |-> FALSE, now |-> 0,
   userRoles |-> <<>>, resolved |-> None,
   handlerCalled |-> FALSE, auth |-> None, response |-> None,
   thrown |-> FALSE, revokedAtBegin |-> {}]

\* return NextResponse.json(..., { status })
Deny(r, response) == [r EXCEPT !.pc = "done", !.response = Some(response)]

\* return handler(authReq, context)
CallHandler(r, auth) ==
  [r EXCEPT !.pc = "done", !.handlerCalled = TRUE, !.auth = auth]

\* Throw with the rejection swallowed and the handler run.
ThrowSwallowed(r) ==
  [r EXCEPT !.pc = "done", !.thrown = TRUE, !.handlerCalled = TRUE]

\* An awaited call rejects: the async function's promise rejects.
Throw(r) == [r EXCEPT !.pc = "done", !.thrown = TRUE]

Entry(r) == ROUTE_PERMISSIONS[r.entry]

\* withAuthStart asking for the credential before looking at the requirement.
withAuthStartTokenFirst(request) ==
  LET entry == findRoutePermission(ROUTE_PERMISSIONS, request.method,
                                   request.pathname)
      token == extractToken(request.authorization, request.sessionCookie)
      r0 == [IdleRequest EXCEPT !.request = request, !.entry = entry,
                                !.revokedAtBegin = revoked]
  IN IF entry = 0 THEN Deny(r0, NotRegisteredResponse)
     ELSE IF TokenMissing(token)
            THEN Deny([r0 EXCEPT !.token = token], AuthenticationRequiredResponse)
     ELSE IF ROUTE_PERMISSIONS[entry].permission.kind = "public"
            THEN CallHandler(r0, None)
     ELSE [r0 EXCEPT !.token = token, !.pc = "verify"]

\* Steps 1-3, up to the await of verifySessionToken.
withAuthStart(request) ==
  LET entry == findRoutePermission(ROUTE_PERMISSIONS, request.method,
                                   request.pathname)
      token == extractToken(request.authorization, request.sessionCookie)
      r0 == [IdleRequest EXCEPT !.request = request, !.entry = entry,
                                !.revokedAtBegin = revoked]
  IN IF entry = 0 THEN Deny(r0, NotRegisteredResponse)
     ELSE IF ROUTE_PERMISSIONS[entry].permission.kind = "public"
            THEN CallHandler(r0, None)
     ELSE IF TokenMissing(token)
            THEN Deny([r0 EXCEPT !.token = token], AuthenticationRequiredResponse)
     ELSE [r0 EXCEPT !.token = token, !.pc = "verify"]

\* Step 4, up to the await of db.user.findUnique.
withAuthVerified(r, time) ==
  LET sub == verifySessionToken(r.token[1], time)
  IN IF SubMissing(sub) THEN Deny([r EXCEPT !.sub = sub], InvalidTokenResponse)
     ELSE [r EXCEPT !.sub = sub, !.pc = "findUser"]

\* withAuthUserLoaded without the "if (!user)" check.
withAuthUserLoadedUnchecked(r, time) ==
  LET user == findUser(r.sub)
      organizationId == organizationContext(r.request.orgHeader,
                                            r.request.orgQuery,
                                            r.request.orgCookie)
      r1 == [r EXCEPT !.user = user]
  IN IF Entry(r).permission.kind = "authenticated"
       THEN CallHandler([r1 EXCEPT !.organizationId = organizationId],
                        Some(AuthContext(user, organizationId, <<>>, <<>>)))
     ELSE [r1 EXCEPT !.organizationId = organizationId,
                     !.resolverCalled = TRUE, !.now = time,
                     !.pc = "findUserRoles"]

\* withAuthUserLoaded resolving the permissions under every requirement.
withAuthUserLoadedResolving(r, time) ==
  LET user == findUser(r.sub)
      organizationId == organizationContext(r.request.orgHeader,
                                            r.request.orgQuery,
                                            r.request.orgCookie)
      r1 == [r EXCEPT !.user = user]
  IN IF user = NULL THEN Deny(r1, UserNotFoundResponse)
     ELSE [r1 EXCEPT !.organizationId = organizationId,
                     !.resolverCalled = TRUE, !.now = time,
                     !.pc = "findUserRoles"]

\* Steps 5-8, up to the await of db.userRole.findMany in the resolver.
withAuthUserLoaded(r, time) ==
  LET user == findUser(r.sub)
      organizationId == organizationContext(r.request.orgHeader,
                                            r.request.orgQuery,
                                            r.request.orgCookie)
      r1 == [r EXCEPT !.user = user]
  IN IF user = NULL THEN Deny(r1, UserNotFoundResponse)
     ELSE IF Entry(r).permission.kind = "authenticated"
            THEN CallHandler([r1 EXCEPT !.organizationId = organizationId],
                             Some(AuthContext(user, organizationId, <<>>, <<>>)))
     ELSE [r1 EXCEPT !.organizationId = organizationId,
                     !.resolverCalled = TRUE, !.now = time,
                     !.pc = "findUserRoles"]

\* The resolver from the result of db.userRole.findMany up to the await of
\* db.userPermissionMap.findMany.
resolverRolesLoaded(r, store) ==
  [r EXCEPT !.userRoles = findUserRoles(store, r.user, r.organizationId, r.now),
            !.pc = "findDirectMaps"]

\* withAuthResolved checking the requirement against the role-derived
\* permissions only.
withAuthResolvedRoleOnly(r, store) ==
  LET resolved ==
        combineResolved(
          extractRoles(r.userRoles, r.organizationId),
          extractRolePermissions(r.userRoles, r.organizationId),
          extractDirectPermissions(
            findDirectMaps(store, r.user, r.organizationId), r.now))
      r1 == [r EXCEPT !.resolved = Some(resolved)]
  IN IF ~satisfiesRequirement(Some(resolved.rolePermissions), Entry(r).permission)
       THEN Deny(r1, ForbiddenResponse(Entry(r).permission, resolved.roles))
     ELSE CallHandler(r1, Some(AuthContext(r.user, r.organizationId,
                                           resolved.roles, resolved.permissions)))

\* The rest of the resolver, then steps 9-10.
withAuthResolved(r, store) ==
  LET resolved ==
        combineResolved(
          extractRoles(r.userRoles, r.organizationId),
          extractRolePermissions(r.userRoles, r.organizationId),
          extractDirectPermissions(
            findDirectMaps(store, r.user, r.organizationId), r.now))
      r1 == [r EXCEPT !.resolved = Some(resolved)]
  IN IF ~satisfiesRequirement(Some(resolved.permissions), Entry(r).permission)
       THEN Deny(r1, ForbiddenResponse(Entry(r).permission, resolved.roles))
     ELSE CallHandler(r1, Some(AuthContext(r.user, r.organizationId,
                                           resolved.roles, resolved.permissions)))

(***************************************************************************)
(* Actions                                                                 *)
(***************************************************************************)

Requests(In) ==
  [method : In.methods, pathname : In.pathnames,
   authorization : In.authorizations, sessionCookie : In.sessionCookies,
   orgHeader : In.orgHeaders, orgQuery : In.orgQueries,
   orgCookie : In.orgCookies]

\* A request arrives at a route wrapped by withAuth.
Begin(In) ==
  /\ rq.pc = "idle"
  /\ \E request \in Requests(In) : rq' = withAuthStart(request)
  /\ UNCHANGED <<clock, userRoleT, roleT, permMapT, revoked, call, outside>>

\* verifySessionToken settles.
Verify ==
  /\ rq.pc = "verify"
  /\ rq' = withAuthVerified(rq, clock)
  /\ UNCHANGED <<clock, userRoleT, roleT, permMapT, revoked, call, outside>>

\* db.user.findUnique settles: with the row, or rejected (store unavailable).
FindUser ==
  /\ rq.pc = "findUser"
  /\ \E ok \in BOOLEAN :
       rq' = IF ok THEN withAuthUserLoaded(rq, clock) ELSE Throw(rq)
  /\ UNCHANGED <<clock, userRoleT, roleT, permMapT, revoked, call, outside>>

\* db.userRole.findMany settles.
FindUserRoles ==
  /\ rq.pc = "findUserRoles"
  /\ \E ok \in BOOLEAN :
       rq' = IF ok THEN resolverRolesLoaded(rq, Store) ELSE Throw(rq)
  /\ UNCHANGED <<clock, userRoleT, roleT, permMapT, revoked, call, outside>>

\* db.userPermissionMap.findMany settles.
FindDirectMaps ==
  /\ rq.pc = "findDirectMaps"
  /\ \E ok \in BOOLEAN :
       rq' = IF ok THEN withAuthResolved(rq, Store) ELSE Throw(rq)
  /\ UNCHANGED <<clock, userRoleT, roleT, permMapT, revoked, call, outside>>

\* The request is over; the server takes the next one.
Finish ==
  /\ rq.pc = "done"
  /\ rq' = IdleRequest
  /\ UNCHANGED <<clock, userRoleT, roleT, permMapT, revoked, call, outside>>

Tick ==
  /\ clock < MaxTime
  /\ clock' = clock + 1
  /\ UNCHANGED <<userRoleT, roleT, permMapT, revoked, rq, call, outside>>

\* db.userRole.create: a role is assigned.
AssignRole(ids) ==
  /\ \E a \in ids \ (userRoleT \cup revoked) : userRoleT' = userRoleT \cup {a}
  /\ UNCHANGED <<clock, roleT, permMapT, revoked, rq, call, outside>>

\* A role assignment is deleted.
RevokeRole(ids) ==
  /\ \E a \in ids \cap userRoleT :
       /\ userRoleT' = userRoleT \ {a}
       /\ revoked' = revoked \cup {a}
  /\ UNCHANGED <<clock, roleT, permMapT, rq, call, outside>>

\* A direct grant is created.
AddGrant(ids) ==
  /\ \E g \in ids \ permMapT : permMapT' = permMapT \cup {g}
  /\ UNCHANGED <<clock, userRoleT, roleT, revoked, rq, call, outside>>

\* A direct grant is deleted.
RemoveGrant(ids) ==
  /\ \E g \in ids \cap permMapT : permMapT' = permMapT \ {g}
  /\ UNCHANGED <<clock, userRoleT, roleT, revoked, rq, call, outside>>

\* A role is deleted; assignments that refer to it dangle.
DeleteRole(ids) ==
  /\ \E r \in ids \cap roleT : roleT' = roleT \ {r}
  /\ UNCHANGED <<clock, userRoleT, permMapT, revoked, rq, call, outside>>

\* db.role.create: a role is created.
CreateRole(ids) ==
  /\ \E r \in ids \ roleT : roleT' = roleT \cup {r}
  /\ UNCHANGED <<clock, userRoleT, permMapT, revoked, rq, call, outside>>

(***************************************************************************)
(* PermissionGate (client/components/permission-gate.tsx)                  *)
(***************************************************************************)

\* The empty string.
EmptyString == <<"">>

\* The props require, requireAny and requireAll; None when a prop is absent.
Props(require, requireAny, requireAll) ==
  [require |-> require, requireAny |-> requireAny, requireAll |-> requireAll]

\* if (require) ... else if (requireAny?.length) ... else if (requireAll?.length)
buildRequirement(props) ==
  IF props.require # None /\ props.require[1] # EmptyString
    THEN Single(props.require[1])
  ELSE IF Length(props.requireAny) > 0 THEN AnyOf(props.requireAny[1])
  ELSE IF Length(props.requireAll) > 0 THEN AllOf(props.requireAll[1])
  ELSE Public

\* What PermissionGate renders: "loading", "children" or "fallback".
PermissionGate(props, permissions, loading) ==
  IF loading THEN "loading"
  ELSE IF satisfiesRequirement(Some(permissions), buildRequirement(props))
         THEN "children"
  ELSE "fallback"

(***************************************************************************)
(* RouteGuard (client/components/route-guard.tsx)                          *)
(***************************************************************************)

PAGE_PERMISSIONS == <<
  Route("GET", <<"/", "login">>, Public),
  Route("GET", <<"/", "register">>, Public),
  Route("GET", <<"/", "forgot-password">>, Public),
  Route("GET", <<"/", "dashboard">>, Authenticated),
  Route("GET", <<"/", "settings">>, Authenticated),
  Route("GET", <<"/", "admin">>, Single(AdminAccessAll)),
  Route("GET", <<"/", "admin", "/", "*">>, Single(AdminAccessAll))
>>

\* The props permission, permissionAny, permissionAll, role, roleAny and
\* roleAll; None when a prop is absent.
GuardProps(permission, permissionAny, permissionAll, role, roleAny, roleAll) ==
  [permission |-> permission, permissionAny |-> permissionAny,
   permissionAll |-> permissionAll, role |-> role, roleAny |-> roleAny,
   roleAll |-> roleAll]

NoGuardProps == GuardProps(None, None, None, None, None, None)

\* entry?.permission ?? 'authenticated': null and a missing entry alike.
registryRequirement(pathname) ==
  LET entry == findRoutePermission(PAGE_PERMISSIONS, "GET", pathname)
  IN IF entry = 0 \/ PAGE_PERMISSIONS[entry].permission = Public
       THEN Authenticated
     ELSE PAGE_PERMISSIONS[entry].permission

\* permRequirement of the effect.
permRequirement(props, pathname) ==
  IF props.permission # None /\ props.permission[1] # EmptyString
    THEN Single(props.permission[1])
  ELSE IF Length(props.permissionAny) > 0 THEN AnyOf(props.permissionAny[1])
  ELSE IF Length(props.permissionAll) > 0 THEN AllOf(props.permissionAll[1])
  ELSE registryRequirement(pathname)

\* roleRequirement of the effect; None for null.
roleRequirement(props) ==
  IF props.role # None /\ props.role[1] # "" THEN Some(Single(props.role[1]))
  ELSE IF Length(props.roleAny) > 0 THEN Some(AnyOf(props.roleAny[1]))
  ELSE IF Length(props.roleAll) > 0 THEN Some(AllOf(props.roleAll[1]))
  ELSE None

\* What one run of the effect does: "waiting" (returns while loading),
\* "authorized" (setAuthorized(true); setChecking(false)), "login" or
\* "unauthorized" (router.replace).
checkOutcome(g) ==
  LET perm == permRequirement(g.props, g.pathname)
      role == roleRequirement(g.props)
  IN IF g.authLoading \/ g.permLoading THEN "waiting"
     ELSE IF perm = Public THEN "authorized"
     ELSE IF ~g.isAuthenticated THEN "login"
     ELSE IF role # None /\ ~satisfiesRoleRequirement(Some(g.roles), role[1])
            THEN "unauthorized"
     ELSE IF perm = Authenticated THEN "authorized"
     ELSE IF ~satisfiesRequirement(Some(g.permissions), perm)
            THEN "unauthorized"
     ELSE "authorized"

\* What RouteGuard renders: "loading" or "children".
renderGuard(g) ==
  IF g.authLoading \/ g.permLoading \/ g.checking THEN "loading"
  ELSE IF g.authorized THEN "children"
  ELSE "loading"

\* A RouteGuard as mounted: useState(false), useState(true), effect not run.
MountedGuard(pathname, isAuthenticated, roles, permissions, props, loading) ==
  [pathname |-> pathname, isAuthenticated |-> isAuthenticated,
   roles |-> roles, permissions |-> permissions, props |-> props,
   authLoading |-> loading, permLoading |-> loading,
   authorized |-> FALSE, checking |-> TRUE, ran |-> FALSE, outcome |-> ""]

UnmountedGuard ==
  MountedGuard(<<"/", "login">>, FALSE, <<>>, <<>>, NoGuardProps, TRUE)

\* The effect runs once after a render in which a dependency changed.
RunEffect ==
  /\ ~guard.ran
  /\ LET outcome == checkOutcome(guard)
     IN guard' = [guard EXCEPT
                    !.ran = TRUE,
                    !.outcome = outcome,
                    !.authorized = (outcome = "authorized") \/ @,
                    !.checking = (outcome # "authorized") /\ @]

\* A dependency of the effect changed: it is due again.
Rerendered(g) == [g EXCEPT !.ran = FALSE, !.outcome = ""]

\* usePathname() returns another path.
Navigate(pathnames) ==
  \E pathname \in pathnames :
    /\ pathname # guard.pathname
    /\ guard' = Rerendered([guard EXCEPT !.pathname = pathname])

\* useAuth() and usePermissions() return another visitor state.
ChangeVisitor(visitors) ==
  \E v \in visitors :
    /\ <<v.isAuthenticated, v.roles, v.permissions>>
         # <<guard.isAuthenticated, guard.roles, guard.permissions>>
    /\ guard' = Rerendered([guard EXCEPT
                              !.isAuthenticated = v.isAuthenticated,
                              !.roles = v.roles,
                              !.permissions = v.permissions])

\* isLoading of useAuth() or loading of usePermissions() flips.
ChangeLoading ==
  \/ guard' = Rerendered([guard EXCEPT !.authLoading = ~@])
  \/ guard' = Rerendered([guard EXCEPT !.permLoading = ~@])

\* The parent renders the guard with other props.
ChangeProps(propss) ==
  \E props \in propss :
    /\ props # guard.props
    /\ guard' = Rerendered([guard EXCEPT !.props = props])

(***************************************************************************)
(* Permission cache and usePermissions (client/lib/permission-service.ts,  *)
(* client/hooks/use-permissions.ts, client/lib/auth-context.tsx)           *)
(***************************************************************************)

\* The lifetime '24h' of a permission token, in ticks of the clock.
TokenLife == 1

\* The payload of the token createPermissionToken signs at time now.
createPermissionToken(roles, permissions, organizationId, now) ==
  [org |-> IF Truthy(organizationId) THEN organizationId ELSE UNDEF,
   roles |-> roles, permissions |-> permissions, exp |-> now + TokenLife]

\* The expiry test that lets a token live one tick longer.
tokenExpiredLate(payload, now) == payload.exp # 0 /\ payload.exp + 1 < now

\* payload.exp && payload.exp < Date.now() / 1000
tokenExpired(payload, now) == payload.exp # 0 /\ payload.exp < now

\* The cache readers return their result and what localStorage holds after.
getPermissionPayload(storage, now) ==
  IF storage = None THEN [result |-> None, storage |-> None]
  ELSE IF tokenExpired(storage[1], now)
         THEN [result |-> None, storage |-> None]
  ELSE [result |-> storage, storage |-> storage]

getPermissionKeys(storage, now) ==
  LET read == getPermissionPayload(storage, now)
  IN [result |-> IF read.result = None THEN <<>>
                 ELSE read.result[1].permissions,
      storage |-> read.storage]

getRoleNames(storage, now) ==
  LET read == getPermissionPayload(storage, now)
  IN [result |-> IF read.result = None THEN <<>> ELSE read.result[1].roles,
      storage |-> read.storage]

hasPermissionCache(storage, now) ==
  LET read == getPermissionPayload(storage, now)
  IN [result |-> read.result # None, storage |-> read.storage]

CacheReaders ==
  {"getPermissionPayload", "getPermissionKeys", "getRoleNames",
   "hasPermissionCache"}

readCache(fn, storage, now) ==
  CASE fn = "getPermissionPayload" -> getPermissionPayload(storage, now)
    [] fn = "getPermissionKeys" -> getPermissionKeys(storage, now)
    [] fn = "getRoleNames" -> getRoleNames(storage, now)
    [] fn = "hasPermissionCache" -> hasPermissionCache(storage, now)

\* The last read of the cache: what was stored before it, when, the result.
Read(fn, before, at, result) ==
  [fn |-> fn, before |-> before, at |-> at, result |-> result]

NoRead == Read("", None, 0, "")

\* The browser of a visitor: localStorage empty, usePermissions mounted with
\* its initial state, its effect due, no organization selected.
FreshClient(isAuthenticated) ==
  [storage |-> None, isAuthenticated |-> isAuthenticated,
   organizationId |-> UNDEF, permissions |-> <<>>, roles |-> <<>>,
   loading |-> TRUE, effectDue |-> TRUE, inflight |-> {}, failed |-> FALSE,
   read |-> NoRead]

IdleClient == FreshClient(FALSE)

\* One of the four readers is called.
ReadCache ==
  \E fn \in CacheReaders :
    LET read == readCache(fn, client.storage, clock)
    IN client' = [client EXCEPT
                    !.storage = read.storage,
                    !.read = Read(fn, client.storage, clock, read.result)]

\* The effect of usePermissions.
usePermissionsEffect ==
  /\ client.effectDue
  /\ IF ~client.isAuthenticated
       THEN client' = [client EXCEPT
                         !.permissions = <<>>, !.roles = <<>>,
                         !.loading = FALSE, !.effectDue = FALSE,
                         !.read = NoRead]
     ELSE LET cachedPerms == getPermissionKeys(client.storage, clock)
              cachedRoles == getRoleNames(cachedPerms.storage, clock)
              read == Read("getRoleNames", cachedPerms.storage, clock,
                           cachedRoles.result)
          IN IF Len(cachedPerms.result) > 0 \/ Len(cachedRoles.result) > 0
               THEN client' = [client EXCEPT
                                 !.storage = cachedRoles.storage,
                                 !.permissions = cachedPerms.result,
                                 !.roles = cachedRoles.result,
                                 !.loading = FALSE, !.effectDue = FALSE,
                                 !.read = read]
             ELSE client' = [client EXCEPT
                               !.storage = cachedRoles.storage,
                               !.inflight = @ \cup {client.organizationId},
                               !.effectDue = FALSE,
                               !.read = read]

\* refresh() up to its await.
refresh ==
  /\ client.isAuthenticated
  /\ client.organizationId \notin client.inflight
  /\ client' = [client EXCEPT
                  !.loading = TRUE,
                  !.inflight = @ \cup {client.organizationId},
                  !.read = NoRead]

\* A fetchAndStorePermissions in flight completes: GET /api/auth/permissions
\* resolves for the organization of the request and signs the token, or the
\* response is not ok; then the continuation sets the hook's state.
fetchCompleted ==
  \E organizationId \in client.inflight, ok \in BOOLEAN :
    LET resolved == resolveUserPermissions(Store, "u1", organizationId, clock)
        token == createPermissionToken(resolved.roles, resolved.permissions,
                                       organizationId, clock)
    IN client' = [client EXCEPT
                    !.inflight = @ \ {organizationId},
                    !.storage = IF ok THEN Some(token) ELSE @,
                    !.permissions = IF ok THEN resolved.permissions ELSE <<>>,
                    !.roles = IF ok THEN resolved.roles ELSE <<>>,
                    !.loading = FALSE,
                    !.failed = @ \/ ~ok,
                    !.read = NoRead]

\* setOrganizationId of the auth context.
setOrganizationId(organizationIds) ==
  \E organizationId \in organizationIds :
    /\ organizationId # client.organizationId
    /\ client' = [client EXCEPT
                    !.organizationId = organizationId,
                    !.effectDue = TRUE,
                    !.read = NoRead]

\* login of the auth context: setUser(user).
AuthLogin ==
  /\ ~client.isAuthenticated
  /\ client' = [client EXCEPT
                  !.isAuthenticated = TRUE, !.effectDue = TRUE,
                  !.read = NoRead]

\* logout of the auth context: setUser(null); clearPermissions().
AuthLogout ==
  /\ client.isAuthenticated
  /\ client' = [client EXCEPT
                  !.isAuthenticated = FALSE, !.storage = None,
                  !.effectDue = TRUE, !.read = NoRead]

(***************************************************************************)
(* Login and account lockout (app/api/auth/login/route.ts,                 *)
(* server/security/lockout.ts), with security.lockout.enabled              *)
(***************************************************************************)

\* security.lockout.maxFailedAttempts
maxFailedAttempts == 5

\* security.lockout.lockoutDurationMs, in ticks of the clock.
LockoutTicks == 2

\* The lockout columns of a db.user row; lockedUntil is {} for null.
Account(failedLoginAttempts, lockedUntil) ==
  [failedLoginAttempts |-> failedLoginAttempts, lockedUntil |-> lockedUntil]

\* user.lockedUntil && user.lockedUntil > now
isLocked(account, now) == \E t \in account.lockedUntil : t > now

\* What recordFailedAttempt computes from the row it read.
failedAttempt(account, now) ==
  LET currentAttempts == IF \E t \in account.lockedUntil : t <= now
                           THEN 0
                         ELSE account.failedLoginAttempts
      newAttempts == currentAttempts + 1
  IN Account(newAttempts,
             IF newAttempts >= maxFailedAttempts
               THEN {now + LockoutTicks}
             ELSE {})

\* A login request: where it is, the password it carries, the row
\* recordFailedAttempt is about to write, the status of its response.
LoginRequest(pc, password, update, status) ==
  [pc |-> pc, password |-> password, update |-> update, status |-> status]

NoLoginRequest == LoginRequest("idle", "", Account(0, {}), 0)

LoginRequests == {"p1", "p2"}

\* An account never failed, no request in flight; wrongChecked counts the
\* wrong passwords verified, lockedOnce and cleared record that the account
\* was locked or reset, checkedLocked that a password was verified while the
\* account was locked.
IdleLogin ==
  [account |-> Account(0, {}),
   requests |-> [p \in LoginRequests |-> NoLoginRequest],
   wrongChecked |-> 0, lockedOnce |-> FALSE, cleared |-> FALSE,
   checkedLocked |-> FALSE]

\* POST /api/auth/login arrives with a password.
PostLogin(p) ==
  /\ login.requests[p].pc = "idle"
  /\ login.wrongChecked <= maxFailedAttempts
  /\ \E password \in {"right", "wrong"} :
       login' = [login EXCEPT
                   !.requests[p] =
                     LoginRequest("checkLockout", password, Account(0, {}), 0)]

\* await checkLockout(email): 423 when locked.
checkLockout(p) ==
  /\ login.requests[p].pc = "checkLockout"
  /\ login' = [login EXCEPT
                 !.requests[p] =
                   IF isLocked(login.account, clock)
                     THEN [@ EXCEPT !.pc = "done", !.status = 423]
                   ELSE [@ EXCEPT !.pc = "verifyPassword"]]

\* await db.user.findUnique; await verifyPassword(password, user.password).
verifyPassword(p) ==
  /\ login.requests[p].pc = "verifyPassword"
  /\ login' = [login EXCEPT
                 !.requests[p].pc =
                   IF login.requests[p].password = "right"
                     THEN "clearFailedAttempts"
                   ELSE "recordFailedAttempt",
                 !.wrongChecked =
                   IF login.requests[p].password = "wrong" THEN @ + 1 ELSE @,
                 !.checkedLocked = @ \/ isLocked(login.account, clock)]

\* recordFailedAttempt up to its db.user.update: the row is read.
recordFailedAttempt(p) ==
  /\ login.requests[p].pc = "recordFailedAttempt"
  /\ login' = [login EXCEPT
                 !.requests[p].pc = "update",
                 !.requests[p].update = failedAttempt(login.account, clock)]

\* db.user.update of recordFailedAttempt, and the 401.
updateFailedAttempt(p) ==
  /\ login.requests[p].pc = "update"
  /\ login' = [login EXCEPT
                 !.account = login.requests[p].update,
                 !.lockedOnce = @ \/ login.requests[p].update.lockedUntil # {},
                 !.requests[p].pc = "done",
                 !.requests[p].status = 401]

\* clearFailedAttempts(user.id), and the 200.
clearFailedAttempts(p) ==
  /\ login.requests[p].pc = "clearFailedAttempts"
  /\ login' = [login EXCEPT
                 !.account = Account(0, {}),
                 !.cleared = TRUE,
                 !.requests[p].pc = "done",
                 !.requests[p].status = 200]

\* The response is sent.
respondLogin(p) ==
  /\ login.requests[p].pc = "done"
  /\ login' = [login EXCEPT !.requests[p] = NoLoginRequest]

(***************************************************************************)
(* Rate limiting (server/security/audit.ts), with                          *)
(* security.rateLimit.enabled, for one key `${type}:${identifier}`         *)
(***************************************************************************)

\* security.rateLimit.login.maxAttempts
maxAttempts == 5

\* security.rateLimit.login.windowMs, in ticks of the clock.
WindowTicks == 2

RateLimitEntry(count, resetAt) == [count |-> count, resetAt |-> resetAt]

\* rateLimitStore has no entry for the key; allowed[t] counts the calls at
\* time t that returned allowed = true since the key was last reset.
IdleLimiter == [entry |-> None, allowed |-> <<>>, result |-> TRUE]

\* The count of allowed calls at time t.
AllowedAt(allowed, t) == IF t + 1 \in DOMAIN allowed THEN allowed[t + 1] ELSE 0

\* allowed with one more call at time t.
RecordAllowed(allowed, t) ==
  [u \in 1..(IF t + 1 > Len(allowed) THEN t + 1 ELSE Len(allowed)) |->
     AllowedAt(allowed, u - 1) + (IF u = t + 1 THEN 1 ELSE 0)]

\* checkRateLimit(identifier, type).
checkRateLimit ==
  LET now == clock
      entry == IF limiter.entry = None \/ limiter.entry[1].resetAt < now
                 THEN RateLimitEntry(0, now + WindowTicks)
               ELSE limiter.entry[1]
      counted == [entry EXCEPT !.count = @ + 1]
      allowed == counted.count <= maxAttempts
  IN /\ entry.count <= maxAttempts
     /\ limiter' = [entry |-> Some(counted),
                    allowed |-> IF allowed
                                  THEN RecordAllowed(limiter.allowed, now)
                                ELSE limiter.allowed,
                    result |-> allowed]

\* resetRateLimit(identifier, type).
resetRateLimit ==
  /\ limiter.entry # None
  /\ limiter' = [entry |-> None, allowed |-> <<>>, result |-> TRUE]

\* The setInterval callback deletes an expired entry.
cleanUp ==
  /\ limiter.entry # None
  /\ limiter.entry[1].resetAt < clock
  /\ limiter' = [limiter EXCEPT !.entry = None]

(***************************************************************************)
(* Sessions and logout (app/api/auth/logout/route.ts)                      *)
(***************************************************************************)

\* db.session holds no row; loggedOut collects the tokens for which the
\* logout handler has completed.
IdleSession == [rows |-> {}, loggedOut |-> {}]

LogoutPath == <<"/", "api", "/", "auth", "/", "logout">>

\* request.cookies.get('session')?.value ??
\*   request.headers.get('authorization')?.replace(/^Bearer\s+/i, '')
logoutToken(request) ==
  IF request.sessionCookie # None THEN request.sessionCookie
  ELSE IF request.authorization # None
         THEN Some(StripBearer(request.authorization[1]))
  ELSE None

\* withAuth has called the handler of POST /api/auth/logout.
LogoutPending ==
  /\ rq.pc = "done"
  /\ rq.handlerCalled
  /\ ~rq.thrown
  /\ ToUpperCase(rq.request.method) = "POST"
  /\ StripQuery(rq.request.pathname) = LogoutPath

\* The logout handler: db.session.deleteMany({ where: { token } }) and the
\* response that clears the cookies, or 500 when deleteMany rejects.
logoutHandler ==
  /\ LogoutPending
  /\ \E ok \in BOOLEAN :
       LET token == logoutToken(rq.request)
       IN session' = IF ok /\ ~TokenMissing(token)
                       THEN [rows |-> session.rows \ {token[1]},
                             loggedOut |-> session.loggedOut \cup {token[1]}]
                     ELSE session
  /\ rq' = IdleRequest
  /\ UNCHANGED <<clock, userRoleT, roleT, permMapT, revoked, call, guard,
                 client, login, limiter>>

(***************************************************************************)
(* The other parts at rest                                                 *)
(***************************************************************************)


InitOutside ==
  /\ guard = UnmountedGuard
  /\ client = IdleClient
  /\ login = IdleLogin
  /\ limiter = IdleLimiter
  /\ session = IdleSession

(***************************************************************************)
(* Specifications                                                          *)
(***************************************************************************)

Bearer(tok) == Some(<<"Bearer", " ", tok>>)

\* Requests of every kind the gate distinguishes.
GateInputs ==
  [methods |-> {"GET", "POST", "DELETE", "delete"},
   pathnames |-> {<<"/", "api", "/", "health">>,
                  <<"/", "api", "/", "auth", "/", "me">>,
                  <<"/", "api", "/", "users">>,
                  <<"/", "api", "/", "users", "/", "42">>,
                  <<"/", "api", "/", "admin", "/", "purge">>,
                  <<"/", "api", "/", "admin", "/", "a", "/", "b">>,
                  <<"/", "api", "/", "unknown">>},
   authorizations |-> {None, Bearer("tok_u1"), Bearer("tok_u2"),
                       Bearer("tok_u1_short"), Bearer("tok_gone"),
                       Bearer("tok_nosub"), Bearer("garbage"),
                       Some(<<"bearer", " ", "tok_u1">>),
                       Some(<<"Bearer", " ">>),
                       Some(<<"Basic", " ", "tok_u1">>)},
   sessionCookies |-> {None, Some(<<"tok_u1">>), Some(<<"garbage">>)},
   orgHeaders |-> {NULL, "o1"},
   orgQueries |-> {NULL, "o2"},
   orgCookies |-> {NULL, "o1"}]

\* Store states the gate is exercised on.
GateStores ==
  {StoreOf({}, RoleIds, {}),
   StoreOf({"a1", "a4"}, RoleIds, {"g1", "g3"}),
   StoreOf({"a3"}, RoleIds, {"g2"}),
   StoreOf({"a1", "a2", "a3", "a4"}, RoleIds, {"g1", "g2", "g3"})}

NoPrior == [res |-> None, clean |-> FALSE]

\* No matcher function has been called.
NoCall == [fn |-> "", args |-> <<>>, result |-> FALSE]

Init ==
  /\ clock = 0
  /\ \E st \in GateStores :
       /\ userRoleT = st.userRoles
       /\ roleT = st.roles
       /\ permMapT = st.permissionMaps
  /\ revoked = {}
  /\ rq = IdleRequest
  /\ call = NoCall
  /\ seen = {}
  /\ prior = NoPrior
  /\ InitOutside

\* The ghost variables are not followed.
KeepGhost == UNCHANGED <<seen, prior>>

Next ==
  \/ Begin(GateInputs) /\ KeepGhost
  \/ Verify /\ KeepGhost
  \/ FindUser /\ KeepGhost
  \/ FindUserRoles /\ KeepGhost
  \/ FindDirectMaps /\ KeepGhost
  \/ Finish /\ KeepGhost
  \/ Tick /\ KeepGhost

\* The gate on a store that does not change while requests are served.
Spec == Init /\ [][Next]_vars

\* Requests of user u1 that reach the resolver, in each organization context.
StoreInputs ==
  [methods |-> {"GET", "DELETE"},
   pathnames |-> {<<"/", "api", "/", "users">>,
                  <<"/", "api", "/", "admin", "/", "purge">>},
   authorizations |-> {Bearer("tok_u1")},
   sessionCookies |-> {None},
   orgHeaders |-> {NULL, "o1", "o2"},
   orgQueries |-> {NULL},
   orgCookies |-> {NULL}]

\* The rows that are created and deleted while requests are served.
MutableUserRoles == {"a1", "a2", "a3"}
MutableGrants == {"g1", "g2"}
MutableRoles == {"r2"}

Resolving(r) == r.pc \in {"findUserRoles", "findDirectMaps"}

StoreNext == StoreOf(userRoleT', roleT', permMapT')

\* A ResolvedPermissions compared as sets, ignoring order.
SetView(res) ==
  [roles |-> Range(res.roles), permissions |-> Range(res.permissions),
   rolePermissions |-> Range(res.rolePermissions),
   directPermissions |-> Range(res.directPermissions)]

\* seen: what resolveUserPermissions would return on each store state that
\* has existed since the call in flight began.
TrackSeen ==
  seen' =
    IF Resolving(rq')
      THEN (IF Resolving(rq) THEN seen ELSE {})
           \cup {SetView(resolveUserPermissions(StoreNext, rq'.user,
                                                rq'.organizationId, rq'.now))}
    ELSE IF rq'.pc = "done" THEN seen
    ELSE {}

\* prior: the result of the last completed call, kept while no row is
\* created or deleted; clean: no row was created or deleted since the call
\* in flight began.
TrackPrior ==
  prior' =
    IF StoreNext # Store THEN NoPrior
    ELSE IF rq'.resolverCalled /\ ~rq.resolverCalled
      THEN [prior EXCEPT !.clean = TRUE]
    ELSE IF rq.pc = "done" /\ rq'.pc = "idle"
      THEN IF rq.resolved # None /\ prior.clean
             THEN [res |-> Some([userId |-> rq.user,
                                 organizationId |-> rq.organizationId,
                                 now |-> rq.now,
                                 result |-> SetView(rq.resolved[1])]),
                   clean |-> FALSE]
           ELSE [prior EXCEPT !.clean = FALSE]
    ELSE prior

InitStore ==
  /\ clock = 0
  /\ userRoleT = {"a4"}
  /\ roleT = RoleIds
  /\ permMapT = {"g3"}
  /\ revoked = {}
  /\ rq = IdleRequest
  /\ call = NoCall
  /\ seen = {}
  /\ prior = NoPrior
  /\ InitOutside

NextStore ==
  \/ Begin(StoreInputs) /\ KeepGhost
  \/ Verify /\ KeepGhost
  \/ FindUser /\ KeepGhost
  \/ FindUserRoles /\ KeepGhost
  \/ FindDirectMaps /\ KeepGhost
  \/ Finish /\ KeepGhost
  \/ Tick /\ KeepGhost
  \/ AssignRole(MutableUserRoles) /\ KeepGhost
  \/ RevokeRole(MutableUserRoles) /\ KeepGhost
  \/ AddGrant(MutableGrants) /\ KeepGhost
  \/ RemoveGrant(MutableGrants) /\ KeepGhost
  \/ DeleteRole(MutableRoles) /\ KeepGhost
  \/ CreateRole(MutableRoles) /\ KeepGhost

\* Requests served while roles, assignments and grants are created and deleted.
SpecStore == InitStore /\ [][NextStore]_vars

\* Requests of user u1 that reach the resolver, repeated.
TwiceInputs ==
  [methods |-> {"GET"},
   pathnames |-> {<<"/", "api", "/", "users">>},
   authorizations |-> {Bearer("tok_u1")},
   sessionCookies |-> {None},
   orgHeaders |-> {NULL, "o1"},
   orgQueries |-> {NULL},
   orgCookies |-> {NULL}]

KeepPrior == UNCHANGED prior
KeepSeen == UNCHANGED seen

\* The rows created and deleted while the resolutions are followed.
SnapUserRoles == {"a1", "a3"}
SnapGrants == {"g1", "g2"}

NextSnap ==
  \/ Begin(TwiceInputs) /\ TrackSeen /\ KeepPrior
  \/ Verify /\ TrackSeen /\ KeepPrior
  \/ FindUser /\ TrackSeen /\ KeepPrior
  \/ FindUserRoles /\ TrackSeen /\ KeepPrior
  \/ FindDirectMaps /\ TrackSeen /\ KeepPrior
  \/ Finish /\ TrackSeen /\ KeepPrior
  \/ Tick /\ TrackSeen /\ KeepPrior
  \/ AssignRole(SnapUserRoles) /\ TrackSeen /\ KeepPrior
  \/ RevokeRole(SnapUserRoles) /\ TrackSeen /\ KeepPrior
  \/ AddGrant(SnapGrants) /\ TrackSeen /\ KeepPrior
  \/ RemoveGrant(SnapGrants) /\ TrackSeen /\ KeepPrior
  \/ DeleteRole(MutableRoles) /\ TrackSeen /\ KeepPrior
  \/ CreateRole(MutableRoles) /\ TrackSeen /\ KeepPrior

\* Requests served while rows are created and deleted, following the store
\* states each resolution overlaps.
SpecSnap == InitStore /\ [][NextSnap]_vars

NextTwice ==
  \/ Begin(TwiceInputs) /\ TrackPrior /\ KeepSeen
  \/ Verify /\ TrackPrior /\ KeepSeen
  \/ FindUser /\ TrackPrior /\ KeepSeen
  \/ FindUserRoles /\ TrackPrior /\ KeepSeen
  \/ FindDirectMaps /\ TrackPrior /\ KeepSeen
  \/ Finish /\ TrackPrior /\ KeepSeen
  \/ Tick /\ TrackPrior /\ KeepSeen
  \/ AssignRole(MutableUserRoles) /\ TrackPrior /\ KeepSeen
  \/ RevokeRole(MutableUserRoles) /\ TrackPrior /\ KeepSeen
  \/ AddGrant(MutableGrants) /\ TrackPrior /\ KeepSeen
  \/ RemoveGrant(MutableGrants) /\ TrackPrior /\ KeepSeen

\* Requests repeated, following the result of the previous call.
SpecTwice == InitStore /\ [][NextTwice]_vars

(***************************************************************************)
(* The matcher functions called on their own                               *)
(***************************************************************************)

\* Longest array passed to a matcher function.
MaxKeys == 2

\* The arrays over S of at most n elements.
ArraysUpTo(S, n) == UNION {[1..k -> S] : k \in 0..n}

ProjectsReadAll == <<"projects", "read", "all">>
ProjectsWriteAll == <<"projects", "write", "all">>
ProjectsAnyAll == <<"projects", "*", "all">>

\* Permission strings: exact, with wildcard segments, of two and of three
\* segments, the bare "*" and the empty string.
PermissionStrings ==
  {Star, ProjectsReadAll, ProjectsWriteAll, ProjectsAnyAll,
   <<"*", "read", "*">>, <<"*", "*", "*">>, <<"a", "b">>, <<"a", "*">>,
   <<"a", "b", "c">>, <<"">>}

HeldStrings == {Star, ProjectsAnyAll, ProjectsReadAll, <<"a", "b">>}
RequiredStrings == {ProjectsReadAll, ProjectsWriteAll, <<"a", "b">>}

\* null and the arrays of held permission strings.
HeldSets == {None} \cup {Some(a) : a \in ArraysUpTo(HeldStrings, MaxKeys)}
RequiredLists == ArraysUpTo(RequiredStrings, MaxKeys)

PermissionRequirements ==
  {Public, Authenticated}
    \cup {Single(k) : k \in RequiredStrings}
    \cup {AnyOf(l) : l \in RequiredLists}
    \cup {AllOf(l) : l \in RequiredLists}

RoleNames == {"Admin", "Editor", "*", "Adm*"}
RequiredRoleNames == {"Admin", "Editor", "Viewer"}

HeldRoles == {None} \cup {Some(a) : a \in ArraysUpTo(RoleNames, MaxKeys)}
RequiredRoleLists == ArraysUpTo(RequiredRoleNames, MaxKeys)

RoleRequirements ==
  {Single(r) : r \in RequiredRoleNames}
    \cup {AnyOf(l) : l \in RequiredRoleLists}
    \cup {AllOf(l) : l \in RequiredRoleLists}

\* Route patterns: literal, with one and with two placeholders, with a
\* trailing "*".
Patterns ==
  {<<"/", "api", "/", "health">>,
   <<"/", "api", "/", "users", "/", ":id">>,
   <<"/", "api", "/", "users", "/", ":id", "/", "roles", "/", ":roleId">>,
   <<"/", "api", "/", "admin", "/", "*">>}

Paths ==
  {<<"/", "api", "/", "health">>,
   <<"/", "api", "/", "healthz">>,
   <<"/", "api", "/", "health", "/">>,
   <<"/", "v1", "/", "api", "/", "health">>,
   <<"/", "api", "/", "users">>,
   <<"/", "api", "/", "users", "/">>,
   <<"/", "api", "/", "users", "/", "42">>,
   <<"/", "api", "/", "users", "/", "42", "?", "tab">>,
   <<"/", "api", "/", "users", "/", "a", ".", "b">>,
   <<"/", "api", "/", "users", "/", "42", "/", "roles">>,
   <<"/", "api", "/", "users", "/", "42", "/", "roles", "/", "7">>,
   <<"/", "api", "/", "users", "/", "/", "roles", "/", "7">>,
   <<"/", "api", "/", "admin">>,
   <<"/", "api", "/", "admin", "/">>,
   <<"/", "api", "/", "admin", "/", "anything", "/", "nested">>,
   <<"/", "api", "/", "administrators">>}

\* A function is called once, on arguments args, and returns result.
Called(fn, args, result) ==
  /\ call.fn = NoCall.fn
  /\ call' = [fn |-> fn, args |-> args, result |-> result]

CallMatchesPermission ==
  \E held \in PermissionStrings, required \in PermissionStrings :
    Called("matchesPermission", <<held, required>>,
           matchesPermission(held, required))

CallHasPermission ==
  \E userKeys \in HeldSets, required \in PermissionStrings :
    Called("hasPermission", <<userKeys, required>>,
           hasPermission(userKeys, required))

CallHasAnyPermission ==
  \E userKeys \in HeldSets, required \in RequiredLists :
    Called("hasAnyPermission", <<userKeys, required>>,
           hasAnyPermission(userKeys, required))

CallHasAllPermissions ==
  \E userKeys \in HeldSets, required \in RequiredLists :
    Called("hasAllPermissions", <<userKeys, required>>,
           hasAllPermissions(userKeys, required))

CallSatisfiesRequirement ==
  \E userKeys \in HeldSets, requirement \in PermissionRequirements :
    Called("satisfiesRequirement", <<userKeys, requirement>>,
           satisfiesRequirement(userKeys, requirement))

CallHasRole ==
  \E userRoles \in HeldRoles, required \in RequiredRoleNames \cup {"*"} :
    Called("hasRole", <<userRoles, required>>, hasRole(userRoles, required))

CallHasAnyRole ==
  \E userRoles \in HeldRoles, required \in RequiredRoleLists :
    Called("hasAnyRole", <<userRoles, required>>,
           hasAnyRole(userRoles, required))

CallHasAllRoles ==
  \E userRoles \in HeldRoles, required \in RequiredRoleLists :
    Called("hasAllRoles", <<userRoles, required>>,
           hasAllRoles(userRoles, required))

CallSatisfiesRoleRequirement ==
  \E userRoles \in HeldRoles, requirement \in RoleRequirements :
    Called("satisfiesRoleRequirement", <<userRoles, requirement>>,
           satisfiesRoleRequirement(userRoles, requirement))

CallPathMatchesPattern ==
  \E pattern \in Patterns, path \in Paths :
    Called("pathMatchesPattern", <<pattern, path>>,
           pathMatchesPattern(pattern, path))

\* Entries for the registries that are looked up: an exact entry ahead of a
\* wildcard one, a method written in lower case, two entries of one pattern.
LookupEntries ==
  {Route("DELETE", <<"/", "api", "/", "admin", "/", "purge">>,
         AllOf(<<AdminAccessAll, SystemAdminAll>>)),
   Route("*", <<"/", "api", "/", "admin", "/", "*">>, Single(AdminAccessAll)),
   Route("get", <<"/", "api", "/", "users", "/", ":id">>, Single(UsersReadAll)),
   Route("GET", <<"/", "api", "/", "users", "/", ":id">>, Authenticated)}

\* The empty registry and the entries in every order.
Registries ==
  {<<>>}
    \cup {r \in [1..Cardinality(LookupEntries) -> LookupEntries] :
            \A i, j \in 1..Cardinality(LookupEntries) : r[i] = r[j] => i = j}

LookupMethods == {"GET", "get", "DELETE", "POST"}

LookupPaths ==
  {<<"/", "api", "/", "admin", "/", "purge">>,
   <<"/", "api", "/", "admin", "/", "x", "/", "y">>,
   <<"/", "api", "/", "admin">>,
   <<"/", "api", "/", "users", "/", "42">>,
   <<"/", "api", "/", "users", "/", "42", "?", "tab">>,
   <<"/", "api", "/", "admin", "/", "purge", "?", "force">>,
   <<"/", "api", "/", "users", "/", "42", "/", "roles">>}

CallFindRoutePermission ==
  \E registry \in Registries, method \in LookupMethods, path \in LookupPaths :
    Called("findRoutePermission", <<registry, method, path>>,
           findRoutePermission(registry, method, path))

\* The props of a PermissionGate with at most one of the three given.
GateProps ==
  {Props(None, None, None)}
    \cup {Props(Some(k), None, None) : k \in RequiredStrings \cup {EmptyString}}
    \cup {Props(None, Some(l), None) : l \in RequiredLists}
    \cup {Props(None, None, Some(l)) : l \in RequiredLists}

CallPermissionGate ==
  \E props \in GateProps, permissions \in ArraysUpTo(HeldStrings, MaxKeys),
     loading \in BOOLEAN :
    Called("PermissionGate", <<props, permissions, loading>>,
           PermissionGate(props, permissions, loading))

InitMatch ==
  /\ clock = 0
  /\ userRoleT = {}
  /\ roleT = RoleIds
  /\ permMapT = {}
  /\ revoked = {}
  /\ rq = IdleRequest
  /\ call = NoCall
  /\ seen = {}
  /\ prior = NoPrior
  /\ InitOutside

\* The store and the gate take no part.
KeepGate ==
  UNCHANGED <<clock, userRoleT, roleT, permMapT, revoked, rq, seen, prior,
              outside>>

NextMatch ==
  \/ CallMatchesPermission /\ KeepGate
  \/ CallHasPermission /\ KeepGate
  \/ CallHasAnyPermission /\ KeepGate
  \/ CallHasAllPermissions /\ KeepGate
  \/ CallSatisfiesRequirement /\ KeepGate
  \/ CallHasRole /\ KeepGate
  \/ CallHasAnyRole /\ KeepGate
  \/ CallHasAllRoles /\ KeepGate
  \/ CallSatisfiesRoleRequirement /\ KeepGate
  \/ CallPathMatchesPattern /\ KeepGate
  \/ CallFindRoutePermission /\ KeepGate
  \/ CallPermissionGate /\ KeepGate

\* The permission, role and path matchers applied to every input.
SpecMatch == InitMatch /\ [][NextMatch]_vars

(***************************************************************************)
(* Properties of the gate                                                  *)
(***************************************************************************)

Done == rq.pc = "done"

\* "*" or the request method, ignoring case.
MethodMatches(entryMethod, method) ==
  entryMethod = "*" \/ ToUpperCase(entryMethod) = ToUpperCase(method)

\* No entry of the registry matches the request's method and path.
Unregistered(request) ==
  \A i \in 1..Len(ROUTE_PERMISSIONS) :
    ~(/\ MethodMatches(ROUTE_PERMISSIONS[i].method, request.method)
      /\ pathMatchesPattern(ROUTE_PERMISSIONS[i].path, request.pathname))

\* C1: a request whose method and path match no entry of ROUTE_PERMISSIONS
\* ends with the 404 "not registered" response and the handler is not
\* invoked, whatever credential it carries.
C1_UnregisteredDenied ==
  (Done /\ Unregistered(rq.request))
    => /\ rq.response = Some(NotRegisteredResponse)
       /\ ~rq.handlerCalled
       /\ ~rq.thrown

\* An unregistered request carrying a valid credential has been denied.
C1_Witness ==
  /\ Done
  /\ Unregistered(rq.request)
  /\ rq.request.authorization = Bearer("tok_u1")
  /\ rq.request.method = "DELETE"
  /\ rq.request.pathname = <<"/", "api", "/", "users">>
  /\ rq.response = Some(NotRegisteredResponse)

\* The matched entry requires a permission string or an ANY/ALL list.
RequiresPermission ==
  /\ rq.entry # 0
  /\ Entry(rq).permission.kind \in {"single", "any", "all"}

\* The subject of the credential the request presents.
PresentedSubject(request) ==
  LET token == extractToken(request.authorization, request.sessionCookie)
  IN IF token # None /\ Len(token[1]) = 1 /\ token[1][1] \in SignedTokens
       THEN TokenClaims(token[1][1]).sub
     ELSE NULL

\* C2: on a route that requires a permission, the handler is invoked only
\* if the permissions resolved for (user, organization) satisfy the
\* requirement; otherwise the response is 403 with the requirement and the
\* resolved roles; on allow the auth context holds exactly the resolved
\* roles and permissions with userId, email and organizationId.
C2_PermissionDecision ==
  (Done /\ RequiresPermission) =>
    LET requirement == Entry(rq).permission
        userId == PresentedSubject(rq.request)
        organizationId == organizationContext(rq.request.orgHeader,
                                              rq.request.orgQuery,
                                              rq.request.orgCookie)
    IN /\ rq.handlerCalled => rq.resolved # None
       /\ rq.resolved # None =>
            LET resolved == rq.resolved[1]
                ok == satisfiesRequirement(Some(resolved.permissions), requirement)
            IN /\ resolved = resolveUserPermissions(Store, userId,
                                                    organizationId, rq.now)
               /\ rq.handlerCalled <=> ok
               /\ ~ok => rq.response =
                           Some(Response(403, "Forbidden", Some(requirement),
                                         resolved.roles))
               /\ ok => /\ rq.response = None
                        /\ rq.auth =
                             Some([userId |-> userId,
                                   email |-> UserEmail(userId),
                                   organizationId |-> organizationId,
                                   roles |-> resolved.roles,
                                   permissions |-> resolved.permissions])

\* A request under the ALL requirement of DELETE /api/admin/purge has been
\* allowed in organization o2 with its resolved permissions attached.
C2_Witness ==
  /\ Done
  /\ RequiresPermission
  /\ Entry(rq).permission.kind = "all"
  /\ rq.handlerCalled
  /\ rq.auth # None
  /\ rq.auth[1].organizationId = "o2"
  /\ Len(rq.auth[1].permissions) >= 2

\* Neither an Authorization header nor a session cookie.
NoCredential(request) ==
  request.authorization = None /\ request.sessionCookie = None

\* The finished request presented no credential, one that the verifier
\* rejected, or one whose subject is no user.
C3_Unauthenticated ==
  \/ NoCredential(rq.request)
  \/ ~TokenMissing(rq.token) /\ SubMissing(rq.sub)
  \/ ~SubMissing(rq.sub) /\ rq.sub \notin UserIds

\* C3: on a matched non-public route a request with no credential, with a
\* credential that fails verification or is expired, or with a verified
\* credential whose subject is no user, gets 401; neither the handler nor
\* the permission resolver is invoked.
C3_UnauthenticatedDenied ==
  (Done /\ rq.entry # 0 /\ Entry(rq).permission.kind # "public"
        /\ ~rq.thrown /\ C3_Unauthenticated)
    => /\ rq.response # None
       /\ rq.response[1].status = 401
       /\ ~rq.handlerCalled
       /\ ~rq.resolverCalled

\* A verified credential of a user that no longer exists was refused.
C3_Witness ==
  /\ Done
  /\ RequiresPermission
  /\ rq.sub = "u9"
  /\ rq.response = Some(UserNotFoundResponse)

\* C4: when a query of the resolver rejects, the handler is not invoked
\* and no auth context is attached.
C4_FailClosed ==
  (Done /\ rq.thrown /\ rq.resolverCalled)
    => /\ ~rq.handlerCalled
       /\ rq.auth = None

\* The second query of the resolver has rejected.
C4_Witness ==
  /\ Done
  /\ rq.thrown
  /\ rq.resolverCalled
  /\ rq.userRoles # <<>>

\* C5: withAuth always ends by returning a decision: the handler's
\* response or a deny response; it never ends by throwing.
C5_AlwaysDecides ==
  Done => /\ ~rq.thrown
          /\ rq.handlerCalled \/ rq.response # None

(***************************************************************************)
(* Properties of the resolver                                              *)
(***************************************************************************)

Resolved == rq.resolved # None

\* C6: the result of a call equals the resolution of one store state that
\* existed between the call's start and its return.
C6_ConsistentSnapshot ==
  (Done /\ Resolved) => SetView(rq.resolved[1]) \in seen

\* The rows of one user.
UserRows(userId) == {a \in Range(UserRolePool) : a.userId = userId}
UserMaps(userId) == {g \in Range(PermissionMapPool) : g.userId = userId}

RowIds(userRoles) == {userRoles[i].id : i \in 1..Len(userRoles)}

Unexpired(expiresAt, now) == \A t \in expiresAt : now < t

\* scope is global, or equals the organization asked for.
GlobalOrOrg(scope, organizationId) ==
  scope = NULL \/ (organizationId # UNDEF /\ scope = organizationId)

\* The first query of the resolver settles with its rows.
RolesStep == rq.pc = "findUserRoles" /\ rq'.pc = "findDirectMaps"

\* The second query settles and the resolver returns.
ResultStep == rq.pc = "findDirectMaps" /\ rq'.resolved # None

\* The fetched rows whose role contributes to the result.
Contributing(userRoles, organizationId) ==
  {a \in Range(UserRolePool) :
     \E i \in 1..Len(userRoles) :
       /\ userRoles[i].id = a.id
       /\ userRoles[i].role # NULL
       /\ GlobalOrOrg(RoleRow(a.roleId).organizationId, organizationId)}

C8_RolesStep ==
  RolesStep =>
    \A a \in UserRows(rq.user) :
      (a.id \in userRoleT /\ ScopeFilter(a.organizationId, rq.organizationId))
        => (a.id \in RowIds(rq'.userRoles) <=> Unexpired(a.expiresAt, rq.now))

C8_ResultStep ==
  ResultStep =>
    LET res == rq'.resolved[1]
        rows == Contributing(rq.userRoles, rq.organizationId)
        maps == {g \in UserMaps(rq.user) :
                   /\ g.id \in permMapT
                   /\ ScopeFilter(g.organizationId, rq.organizationId)
                   /\ Unexpired(g.expiresAt, rq.now)}
    IN /\ Range(res.directPermissions) = UNION {Range(g.permissions) : g \in maps}
       /\ Range(res.rolePermissions) =
            UNION {Range(RoleRow(a.roleId).permissions) : a \in rows}
       /\ Range(res.roles) = {RoleRow(a.roleId).name : a \in rows}
       /\ Range(res.permissions) =
            Range(res.rolePermissions) \cup Range(res.directPermissions)

\* One unexpired Admin assignment and one direct grant that has expired.
C8_Scenario ==
  \A now \in 1..MaxTime :
    LET res == resolveUserPermissions(StoreOf({"a1"}, RoleIds, {"g1"}),
                                      "u1", UNDEF, now)
    IN /\ res.permissions = <<AdminAccessAll>>
       /\ res.roles = <<"Admin">>
       /\ res.directPermissions = <<>>

\* C8: an assignment or grant contributes iff its expiresAt is unset or
\* strictly later than the time now taken at the start of the call; an
\* expired one contributes nothing to any of the four views; the Admin
\* scenario resolves to permissions [admin:access:all], roles [Admin] and
\* no direct permissions.
C8_Expiry == [][C8_RolesStep /\ C8_ResultStep /\ C8_Scenario]_vars

\* The scenario has been resolved while the expired grant was in the store.
C8_Witness ==
  /\ Done
  /\ Resolved
  /\ rq.now >= 1
  /\ userRoleT \cap IdsOf(UserRolePool) = {"a1", "a4"}
  /\ permMapT = {"g1", "g3"}
  /\ rq.resolved[1] = [roles |-> <<"Admin">>,
                       permissions |-> <<AdminAccessAll>>,
                       rolePermissions |-> <<AdminAccessAll>>,
                       directPermissions |-> <<>>]

C9_RolesStep ==
  RolesStep =>
    \A a \in UserRows(rq.user) :
      (a.id \in userRoleT /\ NotExpiredFilter(a.expiresAt, rq.now))
        => (a.id \in RowIds(rq'.userRoles)
              <=> GlobalOrOrg(a.organizationId, rq.organizationId))

C9_ResultStep ==
  ResultStep =>
    LET res == rq'.resolved[1]
        org == rq.organizationId
        rows == {a \in UserRows(rq.user) :
                   /\ a.id \in RowIds(rq.userRoles)
                   /\ GlobalOrOrg(a.organizationId, org)
                   /\ \E i \in 1..Len(rq.userRoles) :
                        rq.userRoles[i].id = a.id /\ rq.userRoles[i].role # NULL
                   /\ GlobalOrOrg(RoleRow(a.roleId).organizationId, org)}
        maps == {g \in UserMaps(rq.user) :
                   /\ g.id \in permMapT
                   /\ ~MapExpired(g.expiresAt, rq.now)
                   /\ GlobalOrOrg(g.organizationId, org)}
    IN /\ Range(res.roles) = {RoleRow(a.roleId).name : a \in rows}
       /\ Range(res.rolePermissions) =
            UNION {Range(RoleRow(a.roleId).permissions) : a \in rows}
       /\ Range(res.directPermissions) = UNION {Range(g.permissions) : g \in maps}

\* C9: a role contributes only if its assignment's scope and the role's own
\* scope are each global or the organization asked for; a direct grant only
\* if its scope is; with no organization only global ones contribute.
C9_OrgScoping == [][C9_RolesStep /\ C9_ResultStep]_vars

\* In organization o2 the globally assigned role of organization o1 was
\* fetched and left out, while the grant of o2 contributed.
C9_Witness ==
  /\ Done
  /\ Resolved
  /\ rq.organizationId = "o2"
  /\ "a3" \in RowIds(rq.userRoles)
  /\ rq.resolved[1].roles = <<>>
  /\ SystemAdminAll \in Range(rq.resolved[1].directPermissions)

\* The call that just returned repeats the previous call for the same user
\* and organization, and no row was created or deleted since the previous
\* call began.
Repeated ==
  /\ Done
  /\ Resolved
  /\ prior.clean
  /\ prior.res # None
  /\ prior.res[1].userId = rq.user
  /\ prior.res[1].organizationId = rq.organizationId

SameSets ==
  /\ Range(rq.resolved[1].permissions) = prior.res[1].result.permissions
  /\ Range(rq.resolved[1].roles) = prior.res[1].result.roles

\* No expiresAt of the user's rows lies after n1 and at or before n2.
NoExpiryBetween(n1, n2) ==
  /\ \A a \in UserRows(rq.user) :
       a.id \in userRoleT => \A t \in a.expiresAt : ~(n1 < t /\ t <= n2)
  /\ \A g \in UserMaps(rq.user) :
       g.id \in permMapT => \A t \in g.expiresAt : ~(n1 < t /\ t <= n2)

\* C10 as stated: two calls for the same (user, organization) with no
\* intervening mutation return the same permission and role sets.
C10_Idempotent == Repeated => SameSets

\* C10, amended: ... provided no expiresAt of the user's assignments or
\* grants lies after the first call's evaluation time and at or before the
\* second's.
C10_IdempotentNoExpiry ==
  (Repeated /\ NoExpiryBetween(prior.res[1].now, rq.now)) => SameSets

\* A later call has repeated an earlier one with a non-empty result.
C10_Witness ==
  /\ Repeated
  /\ NoExpiryBetween(prior.res[1].now, rq.now)
  /\ prior.res[1].now < rq.now
  /\ rq.resolved[1].roles # <<>>
  /\ rq.resolved[1].permissions # <<>>

NoDuplicates(arr) ==
  \A i \in 1..Len(arr) : \A j \in 1..Len(arr) : i # j => arr[i] # arr[j]

\* C11: in every result of the resolver, permissions is the union of
\* rolePermissions and directPermissions as a set, and roles, permissions,
\* rolePermissions and directPermissions each hold no element twice.
C11_UnionNoDuplicates ==
  Resolved =>
    LET res == rq.resolved[1]
    IN /\ Range(res.permissions)
            = Range(res.rolePermissions) \cup Range(res.directPermissions)
       /\ NoDuplicates(res.roles)
       /\ NoDuplicates(res.permissions)
       /\ NoDuplicates(res.rolePermissions)
       /\ NoDuplicates(res.directPermissions)

\* The role OrgManager was assigned twice, both assignments were fetched,
\* and the result names it once.
C11_Witness ==
  /\ Done
  /\ Resolved
  /\ {"a2", "a3"} \subseteq RowIds(rq.userRoles)
  /\ Len(rq.userRoles) = 3
  /\ rq.resolved[1].roles = <<"Admin", "OrgManager">>
  /\ Len(rq.resolved[1].rolePermissions) = 3

\* The fetched assignments whose role row was gone when they were read.
DanglingRows == {ur \in Range(rq.userRoles) : ur.role = NULL}

\* The fetched assignments with the dangling ones left out.
ValidRows ==
  SelectSeqBy(rq.userRoles, Range(rq.userRoles) \ DanglingRows)

\* The store with the assignments of deleted roles taken out.
StoreWithoutDangling ==
  StoreOf({a \in userRoleT :
             \A row \in Range(UserRolePool) : row.id = a => row.roleId \in roleT},
          roleT, permMapT)

\* C12: an assignment whose role no longer exists is skipped: the resolver
\* returns on such a store what it returns with that assignment taken out,
\* and a call that fetched such a row returns what the other fetched
\* assignments and the grants contribute.
C12_DanglingSkipped ==
  /\ \A organizationId \in {UNDEF, "o1", "o2"} :
       resolveUserPermissions(Store, "u1", organizationId, clock)
         = resolveUserPermissions(StoreWithoutDangling, "u1", organizationId, clock)
  /\ (Resolved /\ DanglingRows # {}) =>
       LET res == rq.resolved[1]
           org == rq.organizationId
           rows == {ur \in Range(ValidRows) :
                      GlobalOrOrg(RoleRow(ur.role).organizationId, org)}
       IN /\ Range(res.roles) = {RoleRow(ur.role).name : ur \in rows}
          /\ Range(res.rolePermissions)
               = UNION {Range(RoleRow(ur.role).permissions) : ur \in rows}
          /\ Range(res.permissions)
               = Range(res.rolePermissions) \cup Range(res.directPermissions)
          /\ ~rq.thrown

\* The role of assignment a3 was deleted; the call returned the Admin role
\* of assignment a1 and the permission of the direct grant.
C12_Witness ==
  /\ Done
  /\ Resolved
  /\ [id |-> "a3", role |-> NULL] \in DanglingRows
  /\ rq.resolved[1].roles = <<"Admin">>
  /\ ProjectsDeleteAll \in Range(rq.resolved[1].directPermissions)

(***************************************************************************)
(* Properties of the gate on the shipped registry                          *)
(***************************************************************************)

PurgePath == <<"/", "api", "/", "admin", "/", "purge">>

\* The request is DELETE /api/admin/purge, in any letter case of the method.
PurgeRequest ==
  /\ rq.request.method \in {"DELETE", "delete"}
  /\ rq.request.pathname = PurgePath

\* C13: DELETE /api/admin/purge is governed by the entry that requires ALL
\* of admin:access:all and system:admin:all, not by the later entry
\* "* /api/admin/*"; resolved permissions that are only admin:access:all
\* end in 403 and resolved permissions that hold both end in the handler.
C13_PurgeNeedsBoth ==
  (Done /\ PurgeRequest) =>
    /\ Entry(rq).permission = AllOf(<<AdminAccessAll, SystemAdminAll>>)
    /\ Resolved =>
         LET held == Range(rq.resolved[1].permissions)
         IN /\ held = {AdminAccessAll} =>
                 /\ ~rq.handlerCalled
                 /\ rq.response # None
                 /\ rq.response[1].status = 403
            /\ {AdminAccessAll, SystemAdminAll} \subseteq held =>
                 /\ rq.handlerCalled
                 /\ rq.response = None

\* A user whose only resolved permission is admin:access:all was refused.
C13_Witness ==
  /\ Done
  /\ PurgeRequest
  /\ Resolved
  /\ rq.resolved[1].permissions = <<AdminAccessAll>>
  /\ rq.response
       = Some(ForbiddenResponse(AllOf(<<AdminAccessAll, SystemAdminAll>>),
                                <<"Admin">>))
  /\ ~rq.handlerCalled

\* The request matched an entry whose requirement is null.
PublicRoute == rq.entry # 0 /\ Entry(rq).permission.kind = "public"

\* C14: on a matched public route the handler is invoked at once: no
\* credential is read or verified, no user is looked up, nothing is
\* resolved, whatever credential the request carries.
C14_PublicAllowed ==
  (rq.pc # "idle" /\ PublicRoute) =>
    /\ Done
    /\ rq.handlerCalled
    /\ rq.response = None
    /\ ~rq.thrown
    /\ rq.token = None
    /\ rq.sub = NULL
    /\ rq.user = NULL
    /\ ~rq.resolverCalled
    /\ rq.auth = None

\* A public request carrying a token that does not verify was allowed.
C14_Witness ==
  /\ Done
  /\ PublicRoute
  /\ rq.handlerCalled
  /\ rq.request.authorization = Bearer("garbage")
  /\ rq.request.sessionCookie = None

\* The request matched an entry whose requirement is 'authenticated'.
AuthenticatedRoute ==
  rq.entry # 0 /\ Entry(rq).permission.kind = "authenticated"

\* The presented token is signed, not expired now, and names a user.
ValidCredential ==
  LET token == extractToken(rq.request.authorization, rq.request.sessionCookie)
  IN /\ token # None
     /\ JwtVerifies(token[1], clock)
     /\ TokenClaims(token[1][1]).sub \in UserIds

\* C15: on a route that requires only 'authenticated', a request with a
\* valid credential of an existing user whose row was loaded is allowed
\* whatever the user's roles and grants are; the auth context has empty
\* roles and permissions and the resolver is not called.
C15_AuthenticatedAllowed ==
  (Done /\ AuthenticatedRoute) =>
    /\ (ValidCredential /\ ~rq.thrown) => rq.handlerCalled
    /\ ~rq.resolverCalled
    /\ rq.handlerCalled =>
         /\ rq.response = None
         /\ rq.user \in UserIds
         /\ rq.auth
              = Some([userId |-> rq.user, email |-> UserEmail(rq.user),
                      organizationId |->
                        organizationContext(rq.request.orgHeader,
                                            rq.request.orgQuery,
                                            rq.request.orgCookie),
                      roles |-> <<>>, permissions |-> <<>>])

\* A user who holds roles and grants was allowed with an empty context.
C15_Witness ==
  /\ Done
  /\ AuthenticatedRoute
  /\ ValidCredential
  /\ rq.handlerCalled
  /\ rq.user = "u1"
  /\ {"a1", "a2", "a3"} \subseteq userRoleT
  /\ "g2" \in permMapT
  /\ rq.auth # None
  /\ rq.auth[1].roles = <<>>
  /\ rq.auth[1].organizationId = "o2"

(***************************************************************************)
(* Properties of the matchers                                              *)
(***************************************************************************)

\* Every segment of held is "*" or the segment of required at its place.
SegmentsCover(held, required) ==
  /\ Len(held) = Len(required)
  /\ \A i \in 1..Len(held) : held[i] \in {"*", required[i]}

\* C16: matchesPermission(held, required) is true iff held equals required,
\* or held is the bare "*", or both have the same number of segments and
\* every segment of held is "*" or equals the segment of required; so "*"
\* and p itself match every p, strings of different segment counts match
\* only when held is the bare "*", and a "*" segment of required is no
\* wildcard.
C16_MatchesPermission ==
  call.fn = "matchesPermission" =>
    LET held == call.args[1]
        required == call.args[2]
    IN /\ call.result
            <=> (held = required \/ held = Star \/ SegmentsCover(held, required))
       /\ held = Star => call.result
       /\ held = required => call.result
       /\ (Len(held) # Len(required) /\ held # Star) => ~call.result
       /\ (\E i \in 1..Len(held) :
             i <= Len(required) /\ held[i] \notin {"*", required[i]})
            => ~call.result \/ held = Star

\* projects:*:all held matches projects:read:all required.
C16_Witness ==
  /\ call.fn = "matchesPermission"
  /\ call.args = <<ProjectsAnyAll, ProjectsReadAll>>
  /\ call.result

\* The held array of a call, empty for null.
HeldOf(userKeys) == IF userKeys = None THEN {} ELSE Range(userKeys[1])

\* Some held string matches the required one.
Matched(userKeys, required) ==
  \E held \in HeldOf(userKeys) : matchesPermission(held, required)

\* C17: hasAnyPermission and hasAllPermissions are false on an empty
\* required list for every held set; on a non-empty list hasAny is true iff
\* some required item is matched by some held string and hasAll iff every
\* required item is.
C17_AnyAll ==
  /\ call.fn = "hasAnyPermission" =>
       (call.result <=> /\ call.args[2] # <<>>
                        /\ \E r \in Range(call.args[2]) : Matched(call.args[1], r))
  /\ call.fn = "hasAllPermissions" =>
       (call.result <=> /\ call.args[2] # <<>>
                        /\ \A r \in Range(call.args[2]) : Matched(call.args[1], r))

\* hasAllPermissions(['*'], []) returned false.
C17_Witness ==
  /\ call.fn = "hasAllPermissions"
  /\ call.args = <<Some(<<Star>>), <<>>>>
  /\ ~call.result

\* C18: satisfiesRequirement is true for Public on every held set, null
\* included; for 'authenticated' iff the held set is not null; for a
\* permission string what hasPermission gives; for {any: L} what
\* hasAnyPermission gives; for {all: L} what hasAllPermissions gives.
C18_SatisfiesRequirement ==
  call.fn = "satisfiesRequirement" =>
    LET userKeys == call.args[1]
        requirement == call.args[2]
    IN call.result
         <=> CASE requirement.kind = "public" -> TRUE
               [] requirement.kind = "authenticated" -> userKeys # None
               [] requirement.kind = "single" ->
                    hasPermission(userKeys, requirement.keys[1])
               [] requirement.kind = "any" ->
                    hasAnyPermission(userKeys, requirement.keys)
               [] requirement.kind = "all" ->
                    hasAllPermissions(userKeys, requirement.keys)

\* satisfiesRequirement([], 'authenticated') returned true.
C18_Witness ==
  /\ call.fn = "satisfiesRequirement"
  /\ call.args = <<Some(<<>>), Authenticated>>
  /\ call.result

\* The held roles of a call, empty for null.
RolesOf(userRoles) == IF userRoles = None THEN {} ELSE Range(userRoles[1])

\* C19: hasRole(roles, r) is true iff r is an element of roles; a
\* requirement of one role, of ANY of a list and of ALL of a list is
\* satisfied iff the role, some role of the list, every role of the list is
\* an element, and ANY and ALL of an empty list are not satisfied.
C19_RolesByName ==
  /\ call.fn = "hasRole" =>
       (call.result <=> call.args[2] \in RolesOf(call.args[1]))
  /\ call.fn = "hasAnyRole" =>
       (call.result <=> /\ call.args[2] # <<>>
                        /\ Range(call.args[2]) \cap RolesOf(call.args[1]) # {})
  /\ call.fn = "hasAllRoles" =>
       (call.result <=> /\ call.args[2] # <<>>
                        /\ Range(call.args[2]) \subseteq RolesOf(call.args[1]))
  /\ call.fn = "satisfiesRoleRequirement" =>
       LET held == RolesOf(call.args[1])
           requirement == call.args[2]
       IN call.result
            <=> CASE requirement.kind = "single" -> requirement.keys[1] \in held
                  [] requirement.kind = "any" ->
                       /\ requirement.keys # <<>>
                       /\ Range(requirement.keys) \cap held # {}
                  [] requirement.kind = "all" ->
                       /\ requirement.keys # <<>>
                       /\ Range(requirement.keys) \subseteq held

\* A held role named "*" did not satisfy the requirement of Admin.
C19_Witness ==
  /\ call.fn = "satisfiesRoleRequirement"
  /\ call.args = <<Some(<<"*", "Adm*">>), Single("Admin")>>
  /\ ~call.result

\* The segments of a path: the runs of atoms between its "/" atoms, the
\* run before the first "/" included.
RECURSIVE Segments(_)
Segments(path) ==
  IF path = <<>> THEN <<(<<>>)>>
  ELSE LET rest == Segments(Tail(path))
       IN IF Head(path) = "/" THEN <<(<<>>)>> \o rest
          ELSE <<(<<Head(path)>> \o Head(rest))>> \o Tail(rest)

\* The path without its query string.
BeforeQuery(path) ==
  IF \E i \in 1..Len(path) : path[i] = "?"
    THEN SubSeq(path, 1, (CHOOSE i \in 1..Len(path) :
                            /\ path[i] = "?"
                            /\ \A j \in 1..(i - 1) : path[j] # "?") - 1)
  ELSE path

\* A pattern segment accepts a path segment: a ":name" placeholder accepts
\* every non-empty segment, a literal accepts itself.
SegmentAccepts(patternSegment, pathSegment) ==
  IF Len(patternSegment) = 1 /\ patternSegment[1] \in ParamAtoms
    THEN pathSegment # <<>>
  ELSE pathSegment = patternSegment

\* The pattern accepts the whole path: segment by segment, or, when the
\* pattern ends in "*", segment by segment up to the "*" and anything after.
PatternAccepts(pattern, path) ==
  LET ps == Segments(pattern)
      xs == Segments(path)
      n == Len(ps)
  IN IF ps[n] = <<"*">>
       THEN /\ Len(xs) >= n
            /\ \A i \in 1..(n - 1) : SegmentAccepts(ps[i], xs[i])
     ELSE /\ Len(xs) = n
          /\ \A i \in 1..n : SegmentAccepts(ps[i], xs[i])

UserPattern == <<"/", "api", "/", "users", "/", ":id">>
AdminPattern == <<"/", "api", "/", "admin", "/", "*">>

\* The result of pathMatchesPattern(pattern, path), when it was called.
PathMatched(pattern, path) ==
  /\ call.fn = "pathMatchesPattern"
  /\ call.args = <<pattern, path>>
  /\ call.result

PathRefused(pattern, path) ==
  (call.fn = "pathMatchesPattern" /\ call.args = <<pattern, path>>)
    => ~call.result

\* C20: a pattern accepts a path only as a whole: a ":name" placeholder
\* takes exactly one non-empty segment, a trailing "*" takes any remainder,
\* a literal segment takes itself.  /api/users/:id accepts /api/users/42 and
\* refuses /api/users/42/roles and /api/users; /api/admin/* accepts
\* /api/admin/anything/nested.
C20_FullMatch ==
  /\ call.fn = "pathMatchesPattern" =>
       (call.result <=> PatternAccepts(call.args[1], BeforeQuery(call.args[2])))
  /\ PathRefused(UserPattern,
                 <<"/", "api", "/", "users", "/", "42", "/", "roles">>)
  /\ PathRefused(UserPattern, <<"/", "api", "/", "users">>)
  /\ PathRefused(UserPattern, <<"/", "api", "/", "users", "/">>)
  /\ (call.fn = "pathMatchesPattern"
        /\ call.args = <<UserPattern, <<"/", "api", "/", "users", "/", "42">>>>)
       => call.result
  /\ (call.fn = "pathMatchesPattern"
        /\ call.args = <<AdminPattern,
                         <<"/", "api", "/", "admin", "/", "anything", "/", "nested">>>>)
       => call.result

\* /api/admin/* accepted /api/admin/anything/nested.
C20_Witness ==
  PathMatched(AdminPattern,
              <<"/", "api", "/", "admin", "/", "anything", "/", "nested">>)

(***************************************************************************)
(* Properties of the route lookup and of the UI gates                      *)
(***************************************************************************)

\* Two method names that differ at most in letter case.
SameMethod(a, b) ==
  \E names \in {{"GET", "get"}, {"POST", "post"}, {"DELETE", "delete"},
                {"PUT", "put"}} : {a, b} \subseteq names

\* The indices of the entries that accept the method and the path.
MatchingEntries(registry, method, path) ==
  {i \in 1..Len(registry) :
     /\ registry[i].method = "*" \/ SameMethod(registry[i].method, method)
     /\ PatternAccepts(registry[i].path, BeforeQuery(path))}

\* C21: findRoutePermission returns the entry of smallest index whose method
\* is "*" or the request method ignoring case and whose pattern accepts the
\* path without its query string, and null iff there is none; on the same
\* entries in another order both results are null or both are matching
\* entries.
C21_FirstMatch ==
  call.fn = "findRoutePermission" =>
    LET registry == call.args[1]
        method == call.args[2]
        path == call.args[3]
        matching == MatchingEntries(registry, method, path)
    IN /\ call.result = 0 <=> matching = {}
       /\ call.result # 0 =>
            /\ call.result \in matching
            /\ \A i \in matching : call.result <= i
       /\ \A other \in Registries :
            Range(other) = Range(registry) =>
              LET there == findRoutePermission(other, method, path)
              IN /\ there = 0 <=> call.result = 0
                 /\ there # 0 =>
                      there \in MatchingEntries(other, method, path)

\* A lower-case get of /api/users/42?tab in a registry whose third and
\* fourth entries both accept it returned the third.
C21_Witness ==
  /\ call.fn = "findRoutePermission"
  /\ call.args[2] = "get"
  /\ call.args[3] = <<"/", "api", "/", "users", "/", "42", "?", "tab">>
  /\ Len(call.args[1]) = 4
  /\ call.result = 3
  /\ call.args[1][3].method = "GET"
  /\ call.args[1][4].method = "get"

\* The requirement that the given prop of a PermissionGate states.
StatedRequirement(props) ==
  IF props.require # None THEN Single(props.require[1])
  ELSE IF props.requireAny # None THEN AnyOf(props.requireAny[1])
  ELSE AllOf(props.requireAll[1])

\* C22: a PermissionGate that has loaded renders its children iff
\* satisfiesRequirement holds of the held permissions and the requirement
\* its prop states: the string, {any: list} or {all: list}, an empty list
\* included.
C22_GateConsistent ==
  (/\ call.fn = "PermissionGate"
   /\ call.args[1] # Props(None, None, None)
   /\ ~call.args[3])
    => (call.result = "children"
          <=> satisfiesRequirement(Some(call.args[2]),
                                   StatedRequirement(call.args[1])))

(***************************************************************************)
(* RouteGuard on its own                                                   *)
(***************************************************************************)

GuardPathnames ==
  {<<"/", "login">>, <<"/", "register">>, <<"/", "dashboard">>,
   <<"/", "admin">>, <<"/", "admin", "/", "users">>, <<"/", "reports">>}

\* What useAuth() and usePermissions() can return for a visitor.
Visitors ==
  {[isAuthenticated |-> FALSE, roles |-> <<>>, permissions |-> <<>>]}
    \cup [isAuthenticated : {TRUE},
          roles : {<<>>, <<"Admin">>},
          permissions : {<<>>, <<UsersReadAll>>, <<AdminAccessAll>>}]

GuardPropss ==
  {NoGuardProps,
   GuardProps(Some(UsersReadAll), None, None, None, None, None),
   GuardProps(None, None, Some(<<>>), None, None, None),
   GuardProps(None, None, None, Some("Admin"), None, None)}

InitGuard ==
  /\ clock = 0
  /\ userRoleT = {}
  /\ roleT = RoleIds
  /\ permMapT = {}
  /\ revoked = {}
  /\ rq = IdleRequest
  /\ call = NoCall
  /\ seen = {}
  /\ prior = NoPrior
  /\ \E pathname \in GuardPathnames, v \in Visitors, props \in GuardPropss :
       guard = MountedGuard(pathname, v.isAuthenticated, v.roles,
                            v.permissions, props, TRUE)
  /\ client = IdleClient
  /\ login = IdleLogin
  /\ limiter = IdleLimiter
  /\ session = IdleSession

\* Nothing but the guard takes part.
KeepButGuard ==
  UNCHANGED <<clock, userRoleT, roleT, permMapT, revoked, rq, call, seen,
              prior, client, login, limiter, session>>

NextGuard ==
  \/ RunEffect /\ KeepButGuard
  \/ Navigate(GuardPathnames) /\ KeepButGuard
  \/ ChangeVisitor(Visitors) /\ KeepButGuard
  \/ ChangeLoading /\ KeepButGuard
  \/ ChangeProps(GuardPropss) /\ KeepButGuard

SpecGuard == InitGuard /\ [][NextGuard]_vars

(***************************************************************************)
(* Properties of RouteGuard                                                *)
(***************************************************************************)

\* None of permission, permissionAny and permissionAll is given.
NoPermissionProps ==
  /\ guard.props.permission = None
  /\ guard.props.permissionAny = None
  /\ guard.props.permissionAll = None

\* The index in PAGE_PERMISSIONS of the entry for the current page, or 0.
PageEntry == findRoutePermission(PAGE_PERMISSIONS, "GET", guard.pathname)

\* C23: used without permission props on a page path that has no entry in
\* PAGE_PERMISSIONS, RouteGuard's check never authorizes and its children
\* are never rendered, whether or not the visitor is logged in.
C23_DenyUnlisted ==
  (NoPermissionProps /\ PageEntry = 0) =>
    /\ guard.outcome # "authorized"
    /\ guard.ran => renderGuard(guard) # "children"

\* C26: used without props on a page whose PAGE_PERMISSIONS entry is public,
\* RouteGuard's check, once it runs with auth and permissions loaded,
\* authorizes and renders the children, without redirecting, whether or not
\* the visitor is authenticated.
C26_PublicPage ==
  (/\ guard.props = NoGuardProps
   /\ PageEntry # 0
   /\ PAGE_PERMISSIONS[PageEntry].permission = Public
   /\ guard.ran
   /\ guard.outcome # "waiting")
    => (guard.outcome = "authorized" /\ renderGuard(guard) = "children")

\* C28: once the check has run for the current inputs and issued a redirect,
\* RouteGuard does not render its children, even if a check for earlier
\* inputs had authorized.
C28_LatestCheckDecides ==
  (guard.ran /\ guard.outcome \in {"login", "unauthorized"})
    => renderGuard(guard) # "children"

(***************************************************************************)
(* The permission cache and usePermissions on their own                    *)
(***************************************************************************)

ClientOrganizations == {UNDEF, "o1", "o2"}

\* The signed-in user u1 holds role r1 and r2 globally and a grant in o2;
\* none of them expires.
InitClient ==
  /\ clock = 0
  /\ userRoleT = {"a1", "a3"}
  /\ roleT = RoleIds
  /\ permMapT = {"g2"}
  /\ revoked = {}
  /\ rq = IdleRequest
  /\ call = NoCall
  /\ seen = {}
  /\ prior = NoPrior
  /\ guard = UnmountedGuard
  /\ client \in {FreshClient(a) : a \in BOOLEAN}
  /\ login = IdleLogin
  /\ limiter = IdleLimiter
  /\ session = IdleSession

\* Nothing but the browser takes part.
KeepButClient ==
  UNCHANGED <<clock, userRoleT, roleT, permMapT, revoked, rq, call, seen,
              prior, guard, login, limiter, session>>

NextClient ==
  \/ ReadCache /\ KeepButClient
  \/ usePermissionsEffect /\ KeepButClient
  \/ refresh /\ KeepButClient
  \/ fetchCompleted /\ KeepButClient
  \/ setOrganizationId(ClientOrganizations) /\ KeepButClient
  \/ AuthLogin /\ KeepButClient
  \/ AuthLogout /\ KeepButClient
  \/ Tick /\ KeepGhost

SpecClient == InitClient /\ [][NextClient]_vars

(***************************************************************************)
(* Properties of the permission cache and of usePermissions                *)
(***************************************************************************)

\* A read returned nothing: null, an empty array or false.
ReturnedNothing(read) ==
  CASE read.fn = "getPermissionPayload" -> read.result = None
    [] read.fn = "hasPermissionCache" -> read.result = FALSE
    [] OTHER -> read.result = <<>>

\* C24: a read of the cached permission token whose expiry is earlier than
\* the time of the read returns no payload, permission or role and removes
\* the token; with no token stored a read returns nothing, so reads stay
\* empty until a fetch stores a fresh token.
C24_ExpiredDiscarded ==
  client.read.fn # "" =>
    /\ (client.read.before # None
          /\ client.read.before[1].exp < client.read.at)
         => (ReturnedNothing(client.read) /\ client.storage = None)
    /\ client.read.before = None
         => (ReturnedNothing(client.read) /\ client.storage = None)

\* A token that had expired was read and discarded.
C24_Witness ==
  /\ client.read.fn = "getPermissionKeys"
  /\ client.read.before # None
  /\ client.read.before[1].permissions # <<>>
  /\ client.read.before[1].exp < client.read.at
  /\ client.read.result = <<>>
  /\ client.storage = None

\* C29: when usePermissions reports loading = false for an authenticated
\* user, its effect has run, no fetch is in flight and none failed, the
\* roles and permissions it exposes are those resolved for the current
\* organizationId.
C29_CurrentOrganization ==
  (/\ client.isAuthenticated
   /\ ~client.loading
   /\ ~client.effectDue
   /\ client.inflight = {}
   /\ ~client.failed)
    => LET resolved == resolveUserPermissions(Store, "u1",
                                              client.organizationId, clock)
       IN /\ client.permissions = resolved.permissions
          /\ client.roles = resolved.roles

(***************************************************************************)
(* Login and lockout on their own                                          *)
(***************************************************************************)

\* Nothing but the login requests and the account takes part.
KeepButLogin ==
  UNCHANGED <<clock, userRoleT, roleT, permMapT, revoked, rq, call, seen,
              prior, guard, client, limiter, session>>

NextLogin ==
  \/ \E p \in LoginRequests : PostLogin(p) /\ KeepButLogin
  \/ \E p \in LoginRequests : checkLockout(p) /\ KeepButLogin
  \/ \E p \in LoginRequests : verifyPassword(p) /\ KeepButLogin
  \/ \E p \in LoginRequests : recordFailedAttempt(p) /\ KeepButLogin
  \/ \E p \in LoginRequests : updateFailedAttempt(p) /\ KeepButLogin
  \/ \E p \in LoginRequests : clearFailedAttempts(p) /\ KeepButLogin
  \/ \E p \in LoginRequests : respondLogin(p) /\ KeepButLogin
  \/ Tick /\ KeepGhost

SpecLogin == InitMatch /\ [][NextLogin]_vars

(***************************************************************************)
(* Properties of the lockout                                               *)
(***************************************************************************)

\* C25: with lockout enabled, in every interleaving of login requests for an
\* account at most maxFailedAttempts wrong passwords are verified before the
\* account is first locked (no successful login having reset the counter),
\* and no password is verified while lockedUntil is in the future.
C25_LockoutHolds ==
  /\ (~login.lockedOnce /\ ~login.cleared)
       => login.wrongChecked <= maxFailedAttempts
  /\ ~login.checkedLocked

(***************************************************************************)
(* The rate limiter on its own                                             *)
(***************************************************************************)

\* Nothing but the rate limiter takes part.
KeepButLimiter ==
  UNCHANGED <<clock, userRoleT, roleT, permMapT, revoked, rq, call, seen,
              prior, guard, client, login, session>>

NextRate ==
  \/ checkRateLimit /\ KeepButLimiter
  \/ resetRateLimit /\ KeepButLimiter
  \/ cleanUp /\ KeepButLimiter
  \/ Tick /\ KeepGhost

SpecRate == InitMatch /\ [][NextRate]_vars

(***************************************************************************)
(* Properties of the rate limiter                                          *)
(***************************************************************************)

\* The calls allowed at the times from to from + ticks - 1.
RECURSIVE AllowedWithin(_, _, _)
AllowedWithin(allowed, from, ticks) ==
  IF ticks = 0 THEN 0
  ELSE AllowedAt(allowed, from) + AllowedWithin(allowed, from + 1, ticks - 1)

\* C27: in every time interval of length windowMs, at most maxAttempts
\* calls of checkRateLimit for the key returned allowed = true since the key
\* was last reset.
C27_SlidingWindow ==
  \A from \in 0..clock :
    AllowedWithin(limiter.allowed, from, WindowTicks) <= maxAttempts

(***************************************************************************)
(* The gate with the logout handler behind it                              *)
(***************************************************************************)

LogoutInputs ==
  [methods |-> {"GET", "POST"},
   pathnames |-> {LogoutPath,
                  <<"/", "api", "/", "auth", "/", "me">>,
                  <<"/", "api", "/", "users">>,
                  <<"/", "api", "/", "health">>},
   authorizations |-> {None, Bearer("tok_u1"), Bearer("tok_u2")},
   sessionCookies |-> {None, Some(<<"tok_u1">>)},
   orgHeaders |-> {NULL},
   orgQueries |-> {NULL},
   orgCookies |-> {NULL}]

\* u1 and u2 have logged in: db.session holds a row for each token.
InitLogout ==
  /\ clock = 0
  /\ userRoleT = {"a1", "a4"}
  /\ roleT = RoleIds
  /\ permMapT = {"g1", "g3"}
  /\ revoked = {}
  /\ rq = IdleRequest
  /\ call = NoCall
  /\ seen = {}
  /\ prior = NoPrior
  /\ guard = UnmountedGuard
  /\ client = IdleClient
  /\ login = IdleLogin
  /\ limiter = IdleLimiter
  /\ session = [rows |-> {<<"tok_u1">>, <<"tok_u2">>}, loggedOut |-> {}]

NextLogout ==
  \/ Begin(LogoutInputs) /\ KeepGhost
  \/ Verify /\ KeepGhost
  \/ FindUser /\ KeepGhost
  \/ FindUserRoles /\ KeepGhost
  \/ FindDirectMaps /\ KeepGhost
  \/ logoutHandler /\ KeepGhost
  \/ Finish /\ ~LogoutPending /\ KeepGhost
  \/ Tick /\ KeepGhost

SpecLogout == InitLogout /\ [][NextLogout]_vars

(***************************************************************************)
(* Properties of logout                                                    *)
(***************************************************************************)

\* The token withAuth reads from the request was logged out before.
PresentsLoggedOut ==
  LET token == extractToken(rq.request.authorization, rq.request.sessionCookie)
  IN token # None /\ token[1] \in session.loggedOut

\* C30: once the logout handler has completed for a session token, a request
\* that presents that token to a registered route that is not public is
\* answered 401 and its handler is not called.
C30_LogoutEndsSession ==
  (/\ rq.pc = "done"
   /\ ~rq.thrown
   /\ PresentsLoggedOut
   /\ rq.entry # 0
   /\ Entry(rq).permission # Public)
    => /\ ~rq.handlerCalled
       /\ rq.response # None
       /\ rq.response[1].status = 401

====
